---- MODULE Spec2Model ----
(***************************************************************************)
(* Kondor: option pricing (Black-Scholes), payoff engine and exposure      *)
(* classifier.                                                             *)
(*                                                                         *)
(* JavaScript numbers are modelled as fixed-point integers: the integer n  *)
(* stands for the real n / Scale.  Every arithmetic operation rounds to    *)
(* the nearest representable value, symmetrically in the sign, as IEEE     *)
(* arithmetic does.  Infinity and -Infinity are two sentinel values.       *)
(***************************************************************************)
EXTENDS Integers, Sequences, FiniteSets, TLC

VARIABLES
    fn,      \* the function or handler applied last ("none" before any call)
    arg,     \* the arguments handed to the functions
    result,  \* the value the last call returned
    \* the state of the store (stores/positions.svelte.ts): a record of
    \* positions, underlyingPrice, volatility, riskFreeRate, daysToExpiry and
    \* denomination
    positionStore,
    \* the state of the chart component (PayoffChartD3.svelte)
    customPriceRange,        \* <<>> for null, <<min, max>> otherwise
    viewDomain,              \* <<>> for null, <<min, max>> otherwise
    isDragging,
    referenceScale,          \* <<>> for null, the domain of the captured scale otherwise
    hasActualMovement,
    previousPositionCount,
    svgRef,                  \* whether the svg element is bound
    zoomTransform,           \* the zoom transform d3 keeps on the svg element
    moves,                   \* number of zoom events delivered so far
    \* the state of the import and export component
    errorMessage,            \* <<>> for null, the message otherwise
    showConfirmDialog,
    pendingPositions,        \* <<>> for null, <<positions>> otherwise
    fileReader               \* <<>> when idle, <<content>> while a file is read

chartVars ==
    <<customPriceRange, viewDomain, isDragging, referenceScale, hasActualMovement,
      previousPositionCount, svgRef, zoomTransform, moves>>

importVars == <<errorMessage, showConfirmDialog, pendingPositions, fileReader>>

vars == <<fn, arg, result, positionStore, chartVars, importVars>>

---------------------------------------------------------------------------
(* Numbers *)

\* resolution of the fixed-point numbers: n stands for n / Scale
Scale == 10000

\* the JavaScript value Infinity
Infinity == 2000000000

Sgn(x) == IF x > 0 THEN 1 ELSE IF x < 0 THEN -1 ELSE 0

\* Math.abs
MathAbs(x) == IF x < 0 THEN -x ELSE x

IsInf(x) == MathAbs(x) = Infinity

\* Math.max, Math.min of two numbers
MathMax(a, b) == IF a >= b THEN a ELSE b
MathMin(a, b) == IF a <= b THEN a ELSE b

\* floor(r * m / b) and its remainder for 0 <= r < b, m >= 0, by doubling,
\* so that no intermediate value leaves 32 bits
RECURSIVE MulDivRem(_, _, _)
MulDivRem(r, m, b) ==
    IF m = 0 THEN <<0, 0>>
    ELSE LET h  == MulDivRem(r, m \div 2, b)
             q2 == 2 * h[1] + ((2 * h[2]) \div b)
             r2 == (2 * h[2]) % b
             r3 == IF m % 2 = 1 THEN r2 + r ELSE r2
         IN  <<q2 + (r3 \div b), r3 % b>>

\* a * m / b rounded to nearest, for a >= 0, m >= 0, b > 0
RoundMulDiv(a, m, b) ==
    LET h == MulDivRem(a % b, m, b)
    IN  (a \div b) * m + h[1] + (IF 2 * h[2] >= b THEN 1 ELSE 0)

\* the number literal n / d (n >= 0, d > 0)
FxOf(n, d) == RoundMulDiv(n, Scale, d)

\* a * b
FxMul(a, b) ==
    IF IsInf(a) \/ IsInf(b) THEN Sgn(a) * Sgn(b) * Infinity
    ELSE Sgn(a) * Sgn(b) * RoundMulDiv(MathAbs(a), MathAbs(b), Scale)

\* a * (n / d) for the number literal n / d (a finite, n >= 0, d > 0)
FxTimes(a, n, d) == Sgn(a) * RoundMulDiv(MathAbs(a), n, d)

\* a / b
FxDiv(a, b) ==
    IF IsInf(b) THEN 0
    ELSE IF IsInf(a) THEN Sgn(a) * Sgn(b) * Infinity
    ELSE IF b = 0 THEN Sgn(a) * Infinity
    ELSE Sgn(a) * Sgn(b) * RoundMulDiv(MathAbs(a), Scale, MathAbs(b))

\* a + b
FxAdd(a, b) == IF IsInf(a) THEN a ELSE IF IsInf(b) THEN b ELSE a + b

\* a - b
FxSub(a, b) == FxAdd(a, -b)

RECURSIVE SqrtSearch(_, _, _)
SqrtSearch(lo, hi, n) ==
    IF lo >= hi THEN lo
    ELSE LET mid == (lo + hi + 1) \div 2
         IN  IF mid * mid <= n THEN SqrtSearch(mid, hi, n)
                               ELSE SqrtSearch(lo, mid - 1, n)

\* Math.sqrt, for 0 <= x with x * Scale inside 32 bits
MathSqrt(x) ==
    LET n == x * Scale
        y == SqrtSearch(0, 2 * Scale + (n \div Scale), n)
    IN  IF (y + 1) * (y + 1) - n < n - y * y THEN y + 1 ELSE y

\* sum of the Taylor series of e^f from the term `term` of index k - 1 on
RECURSIVE ExpSeries(_, _, _)
ExpSeries(f, term, k) ==
    IF term = 0 THEN 0
    ELSE term + ExpSeries(f, RoundMulDiv(term, f, k * Scale), k + 1)

RECURSIVE FxPow(_, _)
FxPow(b, n) == IF n = 0 THEN Scale ELSE FxMul(b, FxPow(b, n - 1))

\* e^x for a finite x >= 0: e^floor(x) * e^frac(x)
ExpPos(x) ==
    FxMul(FxPow(ExpSeries(Scale, Scale, 1), x \div Scale),
          ExpSeries(x % Scale, Scale, 1))

\* Math.exp
MathExp(x) ==
    IF x = Infinity THEN Infinity
    ELSE IF x = -Infinity THEN 0
    ELSE IF x >= 0 THEN ExpPos(x)
    ELSE IF -x > 12 * Scale THEN 0
    ELSE FxDiv(Scale, ExpPos(-x))

\* sum of z^k / k + z^(k+2) / (k+2) + ... given pow = z^k >= 0 and z2 = z^2
RECURSIVE AtanhSeries(_, _, _)
AtanhSeries(z2, pow, k) ==
    IF pow = 0 THEN 0
    ELSE ((pow + (k \div 2)) \div k) + AtanhSeries(z2, FxMul(pow, z2), k + 2)

\* ln x = 2 atanh((x - 1) / (x + 1)), for x in [1/2, 2]
LnNear(x) ==
    LET z == FxDiv(x - Scale, x + Scale)
    IN  2 * Sgn(z) * AtanhSeries(FxMul(z, z), MathAbs(z), 1)

RECURSIVE LnReduce(_)
LnReduce(x) ==
    IF x > 2 * Scale THEN LnNear(2 * Scale) + LnReduce((x + 1) \div 2)
    ELSE IF 2 * x < Scale THEN LnReduce(2 * x) - LnNear(2 * Scale)
    ELSE LnNear(x)

\* Math.log
MathLog(x) ==
    IF x = Infinity THEN Infinity
    ELSE IF x = 0 THEN -Infinity
    ELSE LnReduce(x)

\* Math.PI
MathPI == FxOf(314159, 100000)

---------------------------------------------------------------------------
(* Black-Scholes pricing *)

Half == Scale \div 2

\* normalPDF(x) = Math.exp(-0.5 * x * x) / Math.sqrt(2 * Math.PI)
normalPDF(x) ==
    FxDiv(MathExp(FxMul(FxMul(-Half, x), x)), MathSqrt(2 * MathPI))

\* the positive-tail approximation 1 - poly(t) * pdf of cumulativeNormalDistribution
CdfTail(absX) ==
    LET a1   == FxOf(31938153, 100000000)
        a2   == -FxOf(356563782, 1000000000)
        a3   == FxOf(1781477937, 1000000000)
        a4   == -FxOf(1821255978, 1000000000)
        a5   == FxOf(1330274429, 1000000000)
        p    == FxOf(2316419, 10000000)
        t    == FxDiv(Scale, FxAdd(Scale, FxMul(p, absX)))
        poly == FxMul(t, a1 + FxMul(t, a2 + FxMul(t, a3 + FxMul(t, a4 + FxMul(t, a5)))))
        pdf  == FxDiv(MathExp(FxMul(FxMul(-Half, absX), absX)), MathSqrt(2 * MathPI))
    IN  Scale - FxMul(poly, pdf)

\* cumulativeNormalDistribution without the reflection for negative x
cumulativeNormalDistributionNoSymmetry(x) == CdfTail(MathAbs(x))

cumulativeNormalDistribution(x) ==
    IF x >= 0 THEN CdfTail(MathAbs(x)) ELSE Scale - CdfTail(MathAbs(x))

d1(S, K, T, r, sigma) ==
    IF T <= 0 \/ sigma <= 0
    THEN IF S >= K THEN Infinity ELSE -Infinity
    ELSE LET sqrtT == MathSqrt(T)
         IN  FxDiv(FxAdd(MathLog(FxDiv(S, K)),
                         FxMul(r + FxMul(FxMul(Half, sigma), sigma), T)),
                   FxMul(sigma, sqrtT))

d2(S, K, T, r, sigma) ==
    IF T <= 0 \/ sigma <= 0
    THEN IF S >= K THEN Infinity ELSE -Infinity
    ELSE FxSub(d1(S, K, T, r, sigma), FxMul(sigma, MathSqrt(T)))

\* the Black-Scholes call formula: S * N(d1) - K * e^(-rT) * N(d2)
BlackScholesCall(S, K, T, r, sigma) ==
    LET d1Val == d1(S, K, T, r, sigma)
        d2Val == d2(S, K, T, r, sigma)
    IN  FxMul(S, cumulativeNormalDistribution(d1Val))
        - FxMul(FxMul(K, MathExp(FxMul(-r, T))), cumulativeNormalDistribution(d2Val))

\* the Black-Scholes put formula: K * e^(-rT) * N(-d2) - S * N(-d1)
BlackScholesPut(S, K, T, r, sigma) ==
    LET d1Val == d1(S, K, T, r, sigma)
        d2Val == d2(S, K, T, r, sigma)
    IN  FxMul(FxMul(K, MathExp(FxMul(-r, T))), cumulativeNormalDistribution(-d2Val))
        - FxMul(S, cumulativeNormalDistribution(-d1Val))

\* callPrice returning S - K at expiry, without the floor at 0
callPriceNoFloor(S, K, T, r, sigma) ==
    IF T <= 0 THEN S - K ELSE BlackScholesCall(S, K, T, r, sigma)

callPrice(S, K, T, r, sigma) ==
    IF T <= 0 THEN MathMax(0, S - K) ELSE BlackScholesCall(S, K, T, r, sigma)

putPrice(S, K, T, r, sigma) ==
    IF T <= 0 THEN MathMax(0, K - S) ELSE BlackScholesPut(S, K, T, r, sigma)

optionPrice(isCall, S, K, T, r, sigma) ==
    IF isCall THEN callPrice(S, K, T, r, sigma) ELSE putPrice(S, K, T, r, sigma)

\* delta counting an at-the-money option at expiry as in the money
deltaTieInTheMoney(isCall, S, K, T, r, sigma) ==
    IF T <= 0
    THEN IF isCall THEN (IF S >= K THEN Scale ELSE 0)
                   ELSE (IF S <= K THEN -Scale ELSE 0)
    ELSE LET d1Val == d1(S, K, T, r, sigma)
             nd1   == cumulativeNormalDistribution(d1Val)
         IN  IF isCall THEN nd1 ELSE nd1 - Scale

delta(isCall, S, K, T, r, sigma) ==
    IF T <= 0
    THEN IF isCall THEN (IF S > K THEN Scale ELSE 0)
                   ELSE (IF S < K THEN -Scale ELSE 0)
    ELSE LET d1Val == d1(S, K, T, r, sigma)
             nd1   == cumulativeNormalDistribution(d1Val)
         IN  IF isCall THEN nd1 ELSE nd1 - Scale

gamma(S, K, T, r, sigma) ==
    IF T <= 0 \/ sigma <= 0
    THEN 0
    ELSE LET d1Val == d1(S, K, T, r, sigma)
         IN  FxDiv(normalPDF(d1Val), FxMul(FxMul(S, sigma), MathSqrt(T)))

\* theta per day: the annual theta divided by 365
theta(isCall, S, K, T, r, sigma) ==
    IF T <= 0
    THEN 0
    ELSE LET d1Val == d1(S, K, T, r, sigma)
             d2Val == d2(S, K, T, r, sigma)
             sqrtT == MathSqrt(T)
             term1 == -FxDiv(FxMul(FxMul(S, normalPDF(d1Val)), sigma), 2 * sqrtT)
             expRT == MathExp(FxMul(-r, T))
             annualTheta ==
                 IF isCall
                 THEN term1 - FxMul(FxMul(FxMul(r, K), expRT),
                                    cumulativeNormalDistribution(d2Val))
                 ELSE term1 + FxMul(FxMul(FxMul(r, K), expRT),
                                    cumulativeNormalDistribution(-d2Val))
         IN  FxDiv(annualTheta, 365 * Scale)

\* vega per 1% of volatility: the annual vega divided by 100
vega(S, K, T, r, sigma) ==
    IF T <= 0
    THEN 0
    ELSE LET d1Val      == d1(S, K, T, r, sigma)
             annualVega == FxMul(FxMul(S, MathSqrt(T)), normalPDF(d1Val))
         IN  FxDiv(annualVega, 100 * Scale)

\* rho per 1% of rate: the annual rho divided by 100
rho(isCall, S, K, T, r, sigma) ==
    IF T <= 0
    THEN 0
    ELSE LET d2Val == d2(S, K, T, r, sigma)
             expRT == MathExp(FxMul(-r, T))
             annualRho ==
                 IF isCall
                 THEN FxMul(FxMul(FxMul(K, T), expRT),
                            cumulativeNormalDistribution(d2Val))
                 ELSE FxMul(FxMul(FxMul(-K, T), expRT),
                            cumulativeNormalDistribution(-d2Val))
         IN  FxDiv(annualRho, 100 * Scale)

\* the d1/d2 values a price or Greek function evaluates on the path it takes:
\* none on its early return, else the values of its d1Val and d2Val
dValuesUsed(name, isCall, S, K, T, r, sigma) ==
    LET d1Val == d1(S, K, T, r, sigma)
        d2Val == d2(S, K, T, r, sigma)
    IN  CASE name \in {"callPrice", "putPrice", "theta"} ->
               IF T <= 0 THEN {} ELSE {d1Val, d2Val}
          [] name \in {"delta", "vega"} ->
               IF T <= 0 THEN {} ELSE {d1Val}
          [] name = "rho" ->
               IF T <= 0 THEN {} ELSE {d2Val}
          [] name = "gamma" ->
               IF T <= 0 \/ sigma <= 0 THEN {} ELSE {d1Val}
          [] OTHER -> {}

\* daysToYears taking less than one day as one day
daysToYearsAtLeastOneDay(days) == FxDiv(MathMax(days, Scale), 365 * Scale)

\* daysToYears(days) = days / 365
daysToYears(days) == FxDiv(days, 365 * Scale)

---------------------------------------------------------------------------
(* Payoff engine *)

\* a position: [optionType, direction, strike, premium, quantity,
\* btcPriceAtEntry, premiumBtc]; the optional premiumBtc is <<>> when it is
\* undefined and <<v>> when it is the number v

\* direction === 'long' ? 1 : -1
directionMultiplierOf(direction) == IF direction = "long" THEN Scale ELSE -Scale

\* the premium in BTC derived from the USD premium even when premiumBtc is set
premiumInBtcOfDerivedFirst(position) ==
    IF position.btcPriceAtEntry > 0
    THEN FxDiv(position.premium, position.btcPriceAtEntry)
    ELSE IF position.premiumBtc # <<>> THEN position.premiumBtc[1] ELSE 0

\* premiumBtc ?? (btcPriceAtEntry > 0 ? premium / btcPriceAtEntry : 0)
premiumInBtcOf(position) ==
    IF position.premiumBtc # <<>> THEN position.premiumBtc[1]
    ELSE IF position.btcPriceAtEntry > 0
         THEN FxDiv(position.premium, position.btcPriceAtEntry)
         ELSE 0

\* calculatePositionPnl subtracting the premium for short positions too
calculatePositionPnlPremiumUnsigned(position, underlyingPrice) ==
    LET intrinsicValue ==
            IF position.optionType = "call"
            THEN MathMax(0, underlyingPrice - position.strike)
            ELSE MathMax(0, position.strike - underlyingPrice)
        directionMultiplier == directionMultiplierOf(position.direction)
        pnlPerContract == FxMul(intrinsicValue, directionMultiplier) - position.premium
    IN  FxMul(pnlPerContract, position.quantity)

calculatePositionPnl(position, underlyingPrice) ==
    LET intrinsicValue ==
            IF position.optionType = "call"
            THEN MathMax(0, underlyingPrice - position.strike)
            ELSE MathMax(0, position.strike - underlyingPrice)
        directionMultiplier == directionMultiplierOf(position.direction)
        pnlPerContract == FxMul(intrinsicValue - position.premium, directionMultiplier)
    IN  FxMul(pnlPerContract, position.quantity)

\* calculatePositionPnlBtc with the call's ratio inverted: S/K - 1 for 1 - K/S
calculatePositionPnlBtcInvertedRatio(position, underlyingPrice) ==
    LET premiumInBtc == premiumInBtcOf(position)
        directionMultiplier == directionMultiplierOf(position.direction)
    IN  IF underlyingPrice <= 0
        THEN IF position.optionType = "call"
             THEN FxMul(FxMul(-premiumInBtc, directionMultiplier), position.quantity)
             ELSE LET maxPutValue == FxDiv(position.strike, Scale)
                  IN  FxMul(FxMul(maxPutValue - premiumInBtc, directionMultiplier),
                            position.quantity)
        ELSE LET intrinsicValueBtc ==
                     IF position.optionType = "call"
                     THEN MathMax(0, FxDiv(underlyingPrice, position.strike) - Scale)
                     ELSE MathMax(0, FxDiv(position.strike, underlyingPrice) - Scale)
                 pnlPerContractBtc ==
                     FxMul(intrinsicValueBtc - premiumInBtc, directionMultiplier)
             IN  FxMul(pnlPerContractBtc, position.quantity)

calculatePositionPnlBtc(position, underlyingPrice) ==
    LET premiumInBtc == premiumInBtcOf(position)
        directionMultiplier == directionMultiplierOf(position.direction)
    IN  IF underlyingPrice <= 0
        THEN IF position.optionType = "call"
             THEN FxMul(FxMul(-premiumInBtc, directionMultiplier), position.quantity)
             ELSE LET maxPutValue == FxDiv(position.strike, Scale)
                  IN  FxMul(FxMul(maxPutValue - premiumInBtc, directionMultiplier),
                            position.quantity)
        ELSE LET intrinsicValueBtc ==
                     IF position.optionType = "call"
                     THEN MathMax(0, Scale - FxDiv(position.strike, underlyingPrice))
                     ELSE MathMax(0, FxDiv(position.strike, underlyingPrice) - Scale)
                 pnlPerContractBtc ==
                     FxMul(intrinsicValueBtc - premiumInBtc, directionMultiplier)
             IN  FxMul(pnlPerContractBtc, position.quantity)

calculatePositionPnlWithTimeValue(position, underlyingPrice, daysToExpiry, volatility, riskFreeRate) ==
    LET isCall == position.optionType = "call"
        T == daysToYears(daysToExpiry)
        currentValue ==
            optionPrice(isCall, underlyingPrice, position.strike, T, riskFreeRate, volatility)
        directionMultiplier == directionMultiplierOf(position.direction)
        pnlPerContract == FxMul(currentValue - position.premium, directionMultiplier)
    IN  FxMul(pnlPerContract, position.quantity)

calculatePositionPnlWithTimeValueBtc(position, underlyingPrice, daysToExpiry, volatility, riskFreeRate) ==
    LET isCall == position.optionType = "call"
        T == daysToYears(daysToExpiry)
        premiumInBtc == premiumInBtcOf(position)
        directionMultiplier == directionMultiplierOf(position.direction)
    IN  IF underlyingPrice <= 0
        THEN FxMul(FxMul(-premiumInBtc, directionMultiplier), position.quantity)
        ELSE LET currentValueUsd ==
                     optionPrice(isCall, underlyingPrice, position.strike, T,
                                 riskFreeRate, volatility)
                 currentValueBtc == FxDiv(currentValueUsd, underlyingPrice)
                 pnlPerContractBtc ==
                     FxMul(currentValueBtc - premiumInBtc, directionMultiplier)
             IN  FxMul(pnlPerContractBtc, position.quantity)

---------------------------------------------------------------------------
(* Exposure classifier *)

\* a side of the exposure summary: the marker 'unlimited' or a number
Unlimited == [unlimited |-> TRUE]
Finite(v) == [unlimited |-> FALSE, value |-> v]

\* netExposure adding the legs of both option types
RECURSIVE netExposureAllLegs(_, _)
netExposureAllLegs(positions, optionType) ==
    IF positions = <<>> THEN 0
    ELSE LET pos == Head(positions)
         IN  FxMul(pos.quantity, directionMultiplierOf(pos.direction))
             + netExposureAllLegs(Tail(positions), optionType)

\* the loop over positions adding quantity * (long ? 1 : -1) for the legs of
\* one option type (netCallExposure, netPutExposure)
RECURSIVE netExposure(_, _)
netExposure(positions, optionType) ==
    IF positions = <<>> THEN 0
    ELSE LET pos == Head(positions)
             exposure == FxMul(pos.quantity, directionMultiplierOf(pos.direction))
         IN  (IF pos.optionType = optionType THEN exposure ELSE 0)
             + netExposure(Tail(positions), optionType)

\* maxProfitAtZero crediting a long put with strike * quantity
RECURSIVE maxProfitAtZeroStrikeOnly(_)
maxProfitAtZeroStrikeOnly(positions) ==
    IF positions = <<>> THEN 0
    ELSE LET pos == Head(positions)
         IN  (IF pos.direction = "long"
              THEN IF pos.optionType = "put"
                   THEN FxMul(pos.strike, pos.quantity)
                   ELSE 0
              ELSE FxMul(pos.premium, pos.quantity))
             + maxProfitAtZeroStrikeOnly(Tail(positions))

\* the loop accumulating maxProfitAtZero
RECURSIVE maxProfitAtZero(_)
maxProfitAtZero(positions) ==
    IF positions = <<>> THEN 0
    ELSE LET pos == Head(positions)
         IN  (IF pos.direction = "long"
              THEN IF pos.optionType = "put"
                   THEN FxMul(pos.strike - pos.premium, pos.quantity)
                   ELSE 0
              ELSE FxMul(pos.premium, pos.quantity))
             + maxProfitAtZero(Tail(positions))

\* the loop accumulating maxLossAtZero
RECURSIVE maxLossAtZero(_)
maxLossAtZero(positions) ==
    IF positions = <<>> THEN 0
    ELSE LET pos == Head(positions)
         IN  (IF pos.direction = "long"
              THEN FxMul(pos.premium, pos.quantity)
              ELSE IF pos.optionType = "put"
                   THEN FxMul(pos.strike - pos.premium, pos.quantity)
                   ELSE 0)
             + maxLossAtZero(Tail(positions))

calculateTheoreticalMaxProfitLoss(positions) ==
    IF Len(positions) = 0
    THEN [maxProfit |-> Finite(0), maxLoss |-> Finite(0)]
    ELSE LET netCallExposure == netExposure(positions, "call")
             hasUnlimitedProfit == netCallExposure > 0
             hasUnlimitedLoss == netCallExposure < 0
         IN  [maxProfit |-> IF hasUnlimitedProfit THEN Unlimited
                            ELSE Finite(maxProfitAtZero(positions)),
              maxLoss   |-> IF hasUnlimitedLoss THEN Unlimited
                            ELSE Finite(-maxLossAtZero(positions))]

\* maxProfitFromCalls crediting a long call with its premium, not the ceiling
RECURSIVE maxProfitFromCallsNoCeiling(_)
maxProfitFromCallsNoCeiling(positions) ==
    IF positions = <<>> THEN 0
    ELSE LET pos == Head(positions)
             premiumInBtc == premiumInBtcOf(pos)
         IN  (IF pos.optionType = "call" \/ pos.direction = "short"
              THEN FxMul(premiumInBtc, pos.quantity)
              ELSE 0)
             + maxProfitFromCallsNoCeiling(Tail(positions))

\* the loop accumulating maxProfitFromCalls
RECURSIVE maxProfitFromCalls(_)
maxProfitFromCalls(positions) ==
    IF positions = <<>> THEN 0
    ELSE LET pos == Head(positions)
             premiumInBtc == premiumInBtcOf(pos)
         IN  (IF pos.optionType = "call"
              THEN IF pos.direction = "long"
                   THEN FxMul(Scale - premiumInBtc, pos.quantity)
                   ELSE FxMul(premiumInBtc, pos.quantity)
              ELSE IF pos.direction = "long"
                   THEN 0
                   ELSE FxMul(premiumInBtc, pos.quantity))
             + maxProfitFromCalls(Tail(positions))

\* the loop accumulating maxLossFromCalls
RECURSIVE maxLossFromCalls(_)
maxLossFromCalls(positions) ==
    IF positions = <<>> THEN 0
    ELSE LET pos == Head(positions)
             premiumInBtc == premiumInBtcOf(pos)
         IN  (IF pos.optionType = "call"
              THEN IF pos.direction = "long"
                   THEN FxMul(premiumInBtc, pos.quantity)
                   ELSE FxMul(Scale - premiumInBtc, pos.quantity)
              ELSE IF pos.direction = "long"
                   THEN FxMul(premiumInBtc, pos.quantity)
                   ELSE 0)
             + maxLossFromCalls(Tail(positions))

calculateTheoreticalMaxProfitLossBtc(positions) ==
    IF Len(positions) = 0
    THEN [maxProfit |-> Finite(0), maxLoss |-> Finite(0)]
    ELSE LET netPutExposure == netExposure(positions, "put")
             hasUnlimitedProfit == netPutExposure > 0
             hasUnlimitedLoss == netPutExposure < 0
         IN  [maxProfit |-> IF hasUnlimitedProfit THEN Unlimited
                            ELSE Finite(maxProfitFromCalls(positions)),
              maxLoss   |-> IF hasUnlimitedLoss THEN Unlimited
                            ELSE Finite(-maxLossFromCalls(positions))]

---------------------------------------------------------------------------
(* Price range and breakevens *)

\* Math.min(...xs), Math.max(...xs) of a nonempty list
RECURSIVE MathMinOf(_)
MathMinOf(xs) ==
    IF Len(xs) = 1 THEN xs[1] ELSE MathMin(Head(xs), MathMinOf(Tail(xs)))

RECURSIVE MathMaxOf(_)
MathMaxOf(xs) ==
    IF Len(xs) = 1 THEN xs[1] ELSE MathMax(Head(xs), MathMaxOf(Tail(xs)))

\* calculatePriceRange without the floor of the lower bound at 0
calculatePriceRangeNoFloor(positions, currentPrice) ==
    IF Len(positions) = 0
    THEN <<FxTimes(currentPrice, 7, 10), FxTimes(currentPrice, 13, 10)>>
    ELSE LET strikes   == [i \in 1 .. Len(positions) |-> positions[i].strike]
             allPrices == Append(strikes, currentPrice)
             minPrice  == MathMinOf(allPrices)
             maxPrice  == MathMaxOf(allPrices)
             range     == IF maxPrice - minPrice # 0 THEN maxPrice - minPrice
                          ELSE FxTimes(currentPrice, 3, 10)
             padding   == MathMax(FxTimes(range, 3, 10),
                                  FxTimes(currentPrice, 1, 10))
         IN  <<minPrice - padding, maxPrice + padding>>

calculatePriceRange(positions, currentPrice) ==
    IF Len(positions) = 0
    THEN <<FxTimes(currentPrice, 7, 10), FxTimes(currentPrice, 13, 10)>>
    ELSE LET strikes   == [i \in 1 .. Len(positions) |-> positions[i].strike]
             allPrices == Append(strikes, currentPrice)
             minPrice  == MathMinOf(allPrices)
             maxPrice  == MathMaxOf(allPrices)
             range     == IF maxPrice - minPrice # 0 THEN maxPrice - minPrice
                          ELSE FxTimes(currentPrice, 3, 10)
             padding   == MathMax(FxTimes(range, 3, 10),
                                  FxTimes(currentPrice, 1, 10))
         IN  <<MathMax(0, minPrice - padding), maxPrice + padding>>

\* the body of the loop of findBreakevens for i: the breakevens pushed
BreakevenAt(prev, curr) ==
    IF (prev.pnl <= 0 /\ curr.pnl >= 0) \/ (prev.pnl >= 0 /\ curr.pnl <= 0)
    THEN LET totalDiff == MathAbs(prev.pnl) + MathAbs(curr.pnl)
         IN  IF totalDiff > 0
             THEN LET ratio == FxDiv(MathAbs(prev.pnl), totalDiff)
                  IN  <<prev.price + FxMul(curr.price - prev.price, ratio)>>
             ELSE <<>>
    ELSE <<>>

\* findBreakevens taking only the pairs whose PnL changes sign strictly
findBreakevensStrict(points) ==
    LET loop[i \in 1 .. MathMax(Len(points), 1)] ==
            IF i >= Len(points) THEN <<>>
            ELSE (IF points[i].pnl * points[i + 1].pnl < 0
                  THEN BreakevenAt(points[i], points[i + 1]) ELSE <<>>)
                 \o loop[i + 1]
    IN  loop[1]

findBreakevens(points) ==
    LET loop[i \in 1 .. MathMax(Len(points), 1)] ==
            IF i >= Len(points) THEN <<>>
            ELSE BreakevenAt(points[i], points[i + 1]) \o loop[i + 1]
    IN  loop[1]

---------------------------------------------------------------------------
(* Store *)

\* the JavaScript value NaN, met only as an argument of the store's setters
NaN == 2100000000

\* a > b, a >= b, a <= b on JavaScript numbers: false when either is NaN
Gt(a, b) == a # NaN /\ b # NaN /\ a > b
Ge(a, b) == a # NaN /\ b # NaN /\ a >= b
Le(a, b) == a # NaN /\ b # NaN /\ a <= b
Lt(a, b) == a # NaN /\ b # NaN /\ a < b

\* the store after the module is loaded with the positions found in storage
StoreConstructed(stored) ==
    positionStore =
        [positions |-> stored, underlyingPrice |-> 100000 * Scale,
         volatility |-> FxOf(8, 10), riskFreeRate |-> 0, daysToExpiry |-> 0,
         denomination |-> "usd"]

\* crypto.randomUUID(): an id no stored position has
FreshIds(stored) == {id \in 1 .. Len(stored) + 1 : \A i \in 1 .. Len(stored) : stored[i].id # id}

\* { ...newPos, id, enabled: newPos.enabled ?? true }
WithId(newPos, id) ==
    [id |-> id, optionType |-> newPos.optionType, direction |-> newPos.direction,
     strike |-> newPos.strike, premium |-> newPos.premium, quantity |-> newPos.quantity,
     expiryDate |-> newPos.expiryDate, premiumBtc |-> newPos.premiumBtc,
     btcPriceAtEntry |-> newPos.btcPriceAtEntry,
     denominationAtEntry |-> newPos.denominationAtEntry,
     enabled |-> IF newPos.enabled = "undefined" THEN "true" ELSE newPos.enabled]

\* p.enabled === false ? true : false
Toggled(p) == [p EXCEPT !.enabled = IF @ = "false" THEN "true" ELSE "false"]

\* Math.round(n * 10 ** decimals) / 10 ** decimals with decimals = 1, n > 0
roundQuantity(n) == FxDiv(((FxMul(n, 10 * Scale) + Half) \div Scale) * Scale, 10 * Scale)

\* get hasPositions, get enabledPositions
hasPositions(stored) == Len(stored) > 0
IsEnabled(p) == p.enabled # "false"
enabledPositions(stored) == SelectSeq(stored, IsEnabled)

---------------------------------------------------------------------------
(* Chart viewport *)

\* null
Null == <<>>

\* the size the ResizeObserver reports, in pixels
dimensions == [width |-> 875 * Scale, height |-> 400 * Scale]

margin ==
    [top |-> 20 * Scale, right |-> 15 * Scale, bottom |-> 40 * Scale,
     left |-> IF dimensions.width < 500 * Scale THEN 45 * Scale ELSE 60 * Scale]

\* the pixel range of the x scales: [margin.left, dimensions.width - margin.right]
XRange == <<margin.left, dimensions.width - margin.right>>

\* the number of samples the chart asks generateDualChartData for
numPoints == 200

\* generateDualChartData: the price range sampled
GenerationDomain(priceRange, stored, currentPrice) ==
    IF priceRange # Null THEN priceRange
    ELSE calculatePriceRange(enabledPositions(stored), currentPrice)

\* generateDualChartData: price = minPrice + step * i of the sample i
SamplePrice(range, i) ==
    LET step == FxDiv(range[2] - range[1], (numPoints - 1) * Scale)
    IN  range[1] + FxMul(step, i * Scale)

\* chartData.withTimeValue[0].price and chartData.withTimeValue[length - 1].price
DataRange(priceRange, stored, currentPrice) ==
    LET range == GenerationDomain(priceRange, stored, currentPrice)
    IN  <<SamplePrice(range, 0), SamplePrice(range, numPoints - 1)>>

\* baseXScale().domain(): the extent of the sampled prices
BaseXDomain(priceRange, stored, currentPrice) ==
    LET data == DataRange(priceRange, stored, currentPrice)
    IN  <<MathMin(data[1], data[2]), MathMax(data[1], data[2])>>

\* currentXDomain()
currentXDomain(view, priceRange, stored, currentPrice) ==
    IF view # Null THEN view ELSE BaseXDomain(priceRange, stored, currentPrice)

\* zoomIdentity
zoomIdentity == [k |-> Scale, x |-> 0]

\* transform.invertX(x) = (x - this.x) / this.k
invertX(transform, x) == FxDiv(x - transform.x, transform.k)

\* scale.invert(x) of a linear scale with the given domain and the range XRange
ScaleInvert(domain, x) ==
    LET t == FxDiv(x - XRange[1], XRange[2] - XRange[1])
    IN  FxMul(domain[1], Scale - t) + FxMul(domain[2], t)

\* transform.rescaleX(scale).domain()
rescaleX(transform, domain) ==
    <<ScaleInvert(domain, invertX(transform, XRange[1])),
      ScaleInvert(domain, invertX(transform, XRange[2]))>>

\* the zoom handler's domain without the clamp of negative prices
PinnedDomainUnclamped(transform, reference) == rescaleX(transform, reference)

\* the zoom handler: newDomain computed from the event's transform
PinnedDomain(transform, reference) ==
    LET newDomain == rescaleX(transform, reference)
    IN  IF newDomain[1] < 0
        THEN LET shift == -newDomain[1] IN <<0, newDomain[2] + shift>>
        ELSE newDomain

needsRangeExtension(visibleRange, dataRange, threshold) ==
    LET dataSpan == dataRange[2] - dataRange[1]
    IN  \/ visibleRange[1] < dataRange[1] + FxMul(dataSpan, threshold)
        \/ visibleRange[2] > dataRange[2] - FxMul(dataSpan, threshold)

calculateExtendedRange(visibleRange, buffer) ==
    LET span == visibleRange[2] - visibleRange[1]
    IN  <<MathMax(0, visibleRange[1] - FxMul(span, buffer)),
          visibleRange[2] + FxMul(span, buffer)>>

\* checkAndExtendRange: constrainedRange
ConstrainedRange(visibleRange, currentPrice) ==
    LET extendedRange == calculateExtendedRange(visibleRange, FxOf(15, 100))
        maxReasonablePrice == FxMul(currentPrice, 5 * Scale)
        minReasonablePrice == 0
    IN  <<MathMax(minReasonablePrice, extendedRange[1]),
          MathMin(maxReasonablePrice, extendedRange[2])>>

\* checkAndExtendRange: whether customPriceRange is assigned constrainedRange
RangeIsExtended(view, priceRange, stored, currentPrice) ==
    LET visibleRange == currentXDomain(view, priceRange, stored, currentPrice)
        dataRange == DataRange(priceRange, stored, currentPrice)
        constrainedRange == ConstrainedRange(visibleRange, currentPrice)
    IN  /\ needsRangeExtension(visibleRange, dataRange, FxOf(25, 100))
        /\ (constrainedRange[1] # dataRange[1] \/ constrainedRange[2] # dataRange[2])

\* the transform d3-zoom hands to the listeners after a drag by dx pixels
Panned(transform, dx) == [transform EXCEPT !.x = @ + dx]

\* the transform d3-zoom hands to the listeners after a wheel step by the
\* factor at the pixel p, the scale kept within scaleExtent([0.5, 20])
Wheeled(transform, factor, p) ==
    LET k1 == MathMax(Half, MathMin(20 * Scale, FxMul(transform.k, factor)))
        p1 == invertX(transform, p)
    IN  [k |-> k1, x |-> p - FxMul(p1, k1)]

\* the chart after it is mounted over the store
ChartMounted ==
    /\ customPriceRange = Null
    /\ viewDomain = Null
    /\ isDragging = FALSE
    /\ referenceScale = Null
    /\ hasActualMovement = FALSE
    /\ previousPositionCount = Len(positionStore.positions)
    /\ svgRef = hasPositions(positionStore.positions)
    /\ zoomTransform = zoomIdentity
    /\ moves = 0

\* the import and export component after mount
ImportMounted ==
    /\ errorMessage = Null
    /\ showConfirmDialog = FALSE
    /\ pendingPositions = Null
    /\ fileReader = Null

---------------------------------------------------------------------------
(* Chart data *)

\* positions.reduce((total, pos) => total + calculatePositionPnl(pos, price), 0)
RECURSIVE calculateCombinedPnl(_, _)
calculateCombinedPnl(positions, underlyingPrice) ==
    IF positions = <<>> THEN 0
    ELSE FxAdd(calculateCombinedPnl(SubSeq(positions, 1, Len(positions) - 1), underlyingPrice),
               calculatePositionPnl(positions[Len(positions)], underlyingPrice))

RECURSIVE calculateCombinedPnlBtc(_, _)
calculateCombinedPnlBtc(positions, underlyingPrice) ==
    IF positions = <<>> THEN 0
    ELSE FxAdd(calculateCombinedPnlBtc(SubSeq(positions, 1, Len(positions) - 1), underlyingPrice),
               calculatePositionPnlBtc(positions[Len(positions)], underlyingPrice))

RECURSIVE calculateCombinedPnlWithTimeValue(_, _, _, _, _)
calculateCombinedPnlWithTimeValue(positions, underlyingPrice, daysToExpiry, volatility, riskFreeRate) ==
    IF positions = <<>> THEN 0
    ELSE FxAdd(calculateCombinedPnlWithTimeValue(SubSeq(positions, 1, Len(positions) - 1),
                   underlyingPrice, daysToExpiry, volatility, riskFreeRate),
               calculatePositionPnlWithTimeValue(positions[Len(positions)],
                   underlyingPrice, daysToExpiry, volatility, riskFreeRate))

RECURSIVE calculateCombinedPnlWithTimeValueBtc(_, _, _, _, _)
calculateCombinedPnlWithTimeValueBtc(positions, underlyingPrice, daysToExpiry, volatility, riskFreeRate) ==
    IF positions = <<>> THEN 0
    ELSE FxAdd(calculateCombinedPnlWithTimeValueBtc(SubSeq(positions, 1, Len(positions) - 1),
                   underlyingPrice, daysToExpiry, volatility, riskFreeRate),
               calculatePositionPnlWithTimeValueBtc(positions[Len(positions)],
                   underlyingPrice, daysToExpiry, volatility, riskFreeRate))

\* the chart handing every stored position to generateDualChartData
ChartDataArgsUnfiltered(store, priceRange) ==
    [positions |-> store.positions,
     currentPrice |-> store.underlyingPrice, daysToExpiry |-> store.daysToExpiry,
     volatility |-> store.volatility, riskFreeRate |-> store.riskFreeRate,
     priceRange |-> priceRange, denomination |-> store.denomination]

\* the arguments the chart hands to generateDualChartData, read from a store
\* and the chart's customPriceRange
ChartDataArgs(store, priceRange) ==
    [positions |-> enabledPositions(store.positions),
     currentPrice |-> store.underlyingPrice, daysToExpiry |-> store.daysToExpiry,
     volatility |-> store.volatility, riskFreeRate |-> store.riskFreeRate,
     priceRange |-> priceRange, denomination |-> store.denomination]

\* generateDualChartData: atExpiry[i].pnl at the price of the sample
AtExpiryPnl(args, price) ==
    IF args.denomination = "btc" THEN calculateCombinedPnlBtc(args.positions, price)
    ELSE calculateCombinedPnl(args.positions, price)

\* generateDualChartData: withTimeValue[i].pnl at the price of the sample
WithTimeValuePnl(args, price) ==
    IF args.daysToExpiry > 0
    THEN IF args.denomination = "btc"
         THEN calculateCombinedPnlWithTimeValueBtc(args.positions, price,
                  args.daysToExpiry, args.volatility, args.riskFreeRate)
         ELSE calculateCombinedPnlWithTimeValue(args.positions, price,
                  args.daysToExpiry, args.volatility, args.riskFreeRate)
    ELSE AtExpiryPnl(args, price)

\* generateDualChartData: the prices sampled
ChartPrice(args, i) ==
    SamplePrice(IF args.priceRange # Null THEN args.priceRange
                ELSE calculatePriceRange(args.positions, args.currentPrice), i)

\* generateDualChartData: the samples i of the two curves
AtExpiryPoint(args, i) ==
    [price |-> ChartPrice(args, i), pnl |-> AtExpiryPnl(args, ChartPrice(args, i))]
WithTimeValuePoint(args, i) ==
    [price |-> ChartPrice(args, i), pnl |-> WithTimeValuePnl(args, ChartPrice(args, i))]

\* generateDualChartData: breakevens, maxProfit and maxLoss
\* findBreakevens run over the samples stretch by stretch: the pairs
\* (i - 1, i) of a stretch are those of the loop from its first sample to
\* its last, and the last sample of a stretch is the first of the next
Stretch == 50
BreakevensByStretch(points) ==
    LET stretch(k) ==
            findBreakevens(SubSeq(points, Stretch * k + 1,
                                  MathMin(Stretch * (k + 1) + 1, Len(points))))
        joined[k \in 0 .. (Len(points) \div Stretch)] ==
            IF k = 0 THEN stretch(0) ELSE joined[k - 1] \o stretch(k)
    IN  joined[Len(points) \div Stretch]

ChartBreakevens(args) ==
    BreakevensByStretch(SubSeq([i \in 1 .. numPoints |-> WithTimeValuePoint(args, i - 1)],
                               1, numPoints))
ChartMaxProfitLoss(args) ==
    IF args.denomination = "btc" THEN calculateTheoreticalMaxProfitLossBtc(args.positions)
    ELSE calculateTheoreticalMaxProfitLoss(args.positions)

---------------------------------------------------------------------------
(* Inputs of the pricing functions *)

\* spot prices 100 - 10 * MaxSpotStep .. 100 + 10 * MaxSpotStep
MaxSpotStep == 2
\* strikes 100 .. 100 + 10 * MaxStrikeStep
MaxStrikeStep == 1
\* times to expiry -1/4 .. MaxQuarters / 4 years
MaxQuarters == 2

Spots == {(100 + 10 * i) * Scale : i \in -MaxSpotStep .. MaxSpotStep}
Strikes == {(100 + 10 * i) * Scale : i \in 0 .. MaxStrikeStep}
Expiries == {(i * Scale) \div 4 : i \in -1 .. MaxQuarters}
Rates == {-FxOf(8, 100), 0, FxOf(5, 100)}
Sigmas == {0, FxOf(4, 10), FxOf(8, 10)}

PricingArgs ==
    [S : Spots, K : Strikes, T : Expiries, r : Rates, sigma : Sigmas, isCall : BOOLEAN]

Init ==
    /\ fn = "none"
    /\ arg \in PricingArgs
    /\ result = 0
    /\ StoreConstructed(<<>>)
    /\ ChartMounted
    /\ ImportMounted

CallPrice ==
    /\ fn = "none"
    /\ fn' = "callPrice"
    /\ UNCHANGED importVars
    /\ result' = callPrice(arg.S, arg.K, arg.T, arg.r, arg.sigma)
    /\ UNCHANGED <<arg, positionStore, chartVars>>

PutPrice ==
    /\ fn = "none"
    /\ fn' = "putPrice"
    /\ UNCHANGED importVars
    /\ result' = putPrice(arg.S, arg.K, arg.T, arg.r, arg.sigma)
    /\ UNCHANGED <<arg, positionStore, chartVars>>

OptionPrice ==
    /\ fn = "none"
    /\ fn' = "optionPrice"
    /\ UNCHANGED importVars
    /\ result' = optionPrice(arg.isCall, arg.S, arg.K, arg.T, arg.r, arg.sigma)
    /\ UNCHANGED <<arg, positionStore, chartVars>>

Delta ==
    /\ fn = "none"
    /\ fn' = "delta"
    /\ UNCHANGED importVars
    /\ result' = delta(arg.isCall, arg.S, arg.K, arg.T, arg.r, arg.sigma)
    /\ UNCHANGED <<arg, positionStore, chartVars>>

Gamma ==
    /\ fn = "none"
    /\ fn' = "gamma"
    /\ UNCHANGED importVars
    /\ result' = gamma(arg.S, arg.K, arg.T, arg.r, arg.sigma)
    /\ UNCHANGED <<arg, positionStore, chartVars>>

Theta ==
    /\ fn = "none"
    /\ fn' = "theta"
    /\ UNCHANGED importVars
    /\ result' = theta(arg.isCall, arg.S, arg.K, arg.T, arg.r, arg.sigma)
    /\ UNCHANGED <<arg, positionStore, chartVars>>

Vega ==
    /\ fn = "none"
    /\ fn' = "vega"
    /\ UNCHANGED importVars
    /\ result' = vega(arg.S, arg.K, arg.T, arg.r, arg.sigma)
    /\ UNCHANGED <<arg, positionStore, chartVars>>

Rho ==
    /\ fn = "none"
    /\ fn' = "rho"
    /\ UNCHANGED importVars
    /\ result' = rho(arg.isCall, arg.S, arg.K, arg.T, arg.r, arg.sigma)
    /\ UNCHANGED <<arg, positionStore, chartVars>>

\* the put-call parity test: parityDiff = call - put, expected = S - K * Math.exp(-r * T)
PutCallParity ==
    /\ fn = "none"
    /\ fn' = "parity"
    /\ UNCHANGED importVars
    /\ result' =
         [parityDiff |-> callPrice(arg.S, arg.K, arg.T, arg.r, arg.sigma)
                         - putPrice(arg.S, arg.K, arg.T, arg.r, arg.sigma),
          expected   |-> arg.S - FxMul(arg.K, MathExp(FxMul(-arg.r, arg.T)))]
    /\ UNCHANGED <<arg, positionStore, chartVars>>

Next ==
    \/ CallPrice \/ PutPrice \/ OptionPrice \/ Delta
    \/ Gamma \/ Theta \/ Vega \/ Rho
    \/ PutCallParity

Spec == Init /\ [][Next]_vars

---------------------------------------------------------------------------
(* Inputs of the payoff functions *)

\* sample prices 0, 1, 90 .. 90 + 10 * MaxPriceStep and 10000
MaxPriceStep == 2
\* days to expiry 0 .. 30 * MaxDaysStep
MaxDaysStep == 1

PayoffPrices ==
    {0, Scale, 10000 * Scale} \cup {(90 + 10 * i) * Scale : i \in 0 .. MaxPriceStep}
DaysToExpiry == {30 * i * Scale : i \in 0 .. MaxDaysStep}
Volatilities == {FxOf(4, 10), FxOf(8, 10)}
RiskFreeRates == {0, FxOf(5, 100)}

\* well-formed positions: strike > 0, premium >= 0, quantity > 0,
\* btcPriceAtEntry > 0
Positions ==
    [optionType : {"call", "put"}, direction : {"long", "short"},
     strike : {100 * Scale}, premium : {0, 5 * Scale},
     quantity : {Half, Scale}, btcPriceAtEntry : {80 * Scale},
     premiumBtc : {<<>>, <<FxOf(1, 10)>>}]

PayoffArgs ==
    [position : Positions, underlyingPrice : PayoffPrices,
     daysToExpiry : DaysToExpiry, volatility : Volatilities,
     riskFreeRate : RiskFreeRates]

PayoffInit ==
    /\ fn = "none"
    /\ arg \in PayoffArgs
    /\ result = 0
    /\ StoreConstructed(<<>>)
    /\ ChartMounted
    /\ ImportMounted

CalculatePositionPnl ==
    /\ fn = "none"
    /\ fn' = "calculatePositionPnl"
    /\ UNCHANGED importVars
    /\ result' = calculatePositionPnl(arg.position, arg.underlyingPrice)
    /\ UNCHANGED <<arg, positionStore, chartVars>>

CalculatePositionPnlBtc ==
    /\ fn = "none"
    /\ fn' = "calculatePositionPnlBtc"
    /\ UNCHANGED importVars
    /\ result' = calculatePositionPnlBtc(arg.position, arg.underlyingPrice)
    /\ UNCHANGED <<arg, positionStore, chartVars>>

CalculatePositionPnlWithTimeValue ==
    /\ fn = "none"
    /\ fn' = "calculatePositionPnlWithTimeValue"
    /\ UNCHANGED importVars
    /\ result' = calculatePositionPnlWithTimeValue(arg.position, arg.underlyingPrice,
                     arg.daysToExpiry, arg.volatility, arg.riskFreeRate)
    /\ UNCHANGED <<arg, positionStore, chartVars>>

CalculatePositionPnlWithTimeValueBtc ==
    /\ fn = "none"
    /\ fn' = "calculatePositionPnlWithTimeValueBtc"
    /\ UNCHANGED importVars
    /\ result' = calculatePositionPnlWithTimeValueBtc(arg.position, arg.underlyingPrice,
                     arg.daysToExpiry, arg.volatility, arg.riskFreeRate)
    /\ UNCHANGED <<arg, positionStore, chartVars>>

PayoffNext ==
    \/ CalculatePositionPnl
    \/ CalculatePositionPnlBtc
    \/ CalculatePositionPnlWithTimeValue
    \/ CalculatePositionPnlWithTimeValueBtc

PayoffSpec == PayoffInit /\ [][PayoffNext]_vars

---------------------------------------------------------------------------
(* Inputs of the exposure classifier *)

\* position lists of length 0 .. MaxPositions
MaxPositions == 2

\* well-formed positions (strike > 0, premium >= 0, quantity > 0): strike 100
\* at premium 5, strike 90 at premium 2 and strike 60 at premium 120, a
\* premium above the strike and above the entry price
ExposurePositions ==
    {pos \in [optionType : {"call", "put"}, direction : {"long", "short"},
              strike : {60 * Scale, 90 * Scale, 100 * Scale},
              premium : {2 * Scale, 5 * Scale, 120 * Scale},
              quantity : {Half, Scale}, btcPriceAtEntry : {80 * Scale},
              premiumBtc : {<<>>}] :
        /\ (pos.strike = 100 * Scale) <=> (pos.premium = 5 * Scale)
        /\ (pos.strike = 90 * Scale) <=> (pos.premium = 2 * Scale)}

PositionLists ==
    {<<>>} \cup UNION {[1 .. n -> ExposurePositions] : n \in 1 .. MaxPositions}

ExposureInit ==
    /\ fn = "none"
    /\ arg \in [positions : PositionLists]
    /\ result = 0
    /\ StoreConstructed(<<>>)
    /\ ChartMounted
    /\ ImportMounted

CalculateTheoreticalMaxProfitLoss ==
    /\ fn = "none"
    /\ fn' = "calculateTheoreticalMaxProfitLoss"
    /\ UNCHANGED importVars
    /\ result' = calculateTheoreticalMaxProfitLoss(arg.positions)
    /\ UNCHANGED <<arg, positionStore, chartVars>>

CalculateTheoreticalMaxProfitLossBtc ==
    /\ fn = "none"
    /\ fn' = "calculateTheoreticalMaxProfitLossBtc"
    /\ UNCHANGED importVars
    /\ result' = calculateTheoreticalMaxProfitLossBtc(arg.positions)
    /\ UNCHANGED <<arg, positionStore, chartVars>>

ExposureNext ==
    \/ CalculateTheoreticalMaxProfitLoss
    \/ CalculateTheoreticalMaxProfitLossBtc

ExposureSpec == ExposureInit /\ [][ExposureNext]_vars

---------------------------------------------------------------------------
(* Inputs of the range solver *)

\* position lists of length 0 .. MaxRangePositions
MaxRangePositions == 2
\* sampled curves of 0 .. MaxPoints points
MaxPoints == 3

RangeStrikes == {10 * Scale, 100 * Scale, 150 * Scale}
RangeSpots == {100 * Scale, 120 * Scale}

RangePositions ==
    [optionType : {"call"}, direction : {"long"}, strike : RangeStrikes,
     premium : {5 * Scale}, quantity : {Scale}, btcPriceAtEntry : {80 * Scale},
     premiumBtc : {<<>>}]

RangePositionLists ==
    {<<>>} \cup UNION {[1 .. n -> RangePositions] : n \in 1 .. MaxRangePositions}

\* PnL values of a sample: a loss, zero, a profit
SamplePnls == {-2 * Scale, 0, 3 * Scale}

\* curves sampled at the prices 100, 101, ...
PointLists ==
    UNION {{[i \in 1 .. n |-> [price |-> (99 + i) * Scale, pnl |-> pnls[i]]] :
                pnls \in [1 .. n -> SamplePnls]} : n \in 0 .. MaxPoints}

RangeInit ==
    /\ fn = "none"
    /\ arg \in [positions : RangePositionLists, currentPrice : RangeSpots,
                 points : PointLists]
    /\ result = 0
    /\ StoreConstructed(<<>>)
    /\ ChartMounted
    /\ ImportMounted

CalculatePriceRange ==
    /\ fn = "none"
    /\ fn' = "calculatePriceRange"
    /\ UNCHANGED importVars
    /\ result' = calculatePriceRange(arg.positions, arg.currentPrice)
    /\ UNCHANGED <<arg, positionStore, chartVars>>

FindBreakevens ==
    /\ fn = "none"
    /\ fn' = "findBreakevens"
    /\ UNCHANGED importVars
    /\ result' = findBreakevens(arg.points)
    /\ UNCHANGED <<arg, positionStore, chartVars>>

RangeNext == CalculatePriceRange \/ FindBreakevens

RangeSpec == RangeInit /\ [][RangeNext]_vars

---------------------------------------------------------------------------
(* Store operations and chart handlers *)

\* at most MaxStored positions are stored
MaxStored == 2
\* at most MaxMoves zoom events are delivered
MaxMoves == 3

\* PositionsAssigned without the reset when the positions become empty
PositionsAssignedNoReset(newPositions) ==
    LET rebound == svgRef # hasPositions(newPositions)
    IN  /\ previousPositionCount' = Len(newPositions)
        /\ svgRef' = hasPositions(newPositions)
        /\ zoomTransform' = IF rebound THEN zoomIdentity ELSE zoomTransform
        /\ referenceScale' = IF rebound THEN Null ELSE referenceScale
        /\ hasActualMovement' = IF rebound THEN FALSE ELSE hasActualMovement
        /\ UNCHANGED <<customPriceRange, viewDomain, isDragging, moves>>

\* the effects of the chart that run after the store's positions are
\* assigned: the reset when the positions become empty, the svg element
\* rendered only when there are positions, and the zoom behaviour set up anew
\* on a new element
PositionsAssigned(newPositions) ==
    LET currentCount == Len(newPositions)
        reset   == currentCount = 0 /\ previousPositionCount > 0 /\ svgRef
        rebound == svgRef # hasPositions(newPositions)
    IN  /\ customPriceRange' = IF reset THEN Null ELSE customPriceRange
        /\ viewDomain' = IF reset THEN Null ELSE viewDomain
        /\ previousPositionCount' = currentCount
        /\ svgRef' = hasPositions(newPositions)
        /\ zoomTransform' = IF reset \/ rebound THEN zoomIdentity ELSE zoomTransform
        /\ referenceScale' = IF rebound THEN Null ELSE referenceScale
        /\ hasActualMovement' = IF rebound THEN FALSE ELSE hasActualMovement
        /\ UNCHANGED <<isDragging, moves>>

\* the position the add form hands to addPosition
NewPositions ==
    [optionType : {"call"}, direction : {"long"}, strike : {150 * Scale},
     premium : {5 * Scale}, quantity : {Scale}, expiryDate : {30},
     premiumBtc : {<<>>}, btcPriceAtEntry : {80 * Scale},
     denominationAtEntry : {"usd"}, enabled : {"undefined"}]

\* the position lists an import hands to setPositions
ImportedLists ==
    {<<>>} \cup {<<WithId(newPos, 1)>> : newPos \in NewPositions}

\* numbers handed to the setters
PriceArgs == {NaN, 0, Infinity}
VolatilityArgs == {NaN, 0, 5 * Scale, 5 * Scale + 1}
RateArgs == {-Scale}
DaysArgs == {NaN, -1, 0, Infinity}
QuantityArgs == {FxOf(5, 100), FxOf(25, 100)}

Ids == {positionStore.positions[i].id : i \in 1 .. Len(positionStore.positions)}

addPosition(newPos) ==
    /\ ~isDragging
    /\ Len(positionStore.positions) < MaxStored
    /\ fn' = "addPosition"
    /\ UNCHANGED importVars
    /\ arg' = [newPos |-> newPos]
    /\ LET fresh == FreshIds(positionStore.positions)
           id == CHOOSE id \in fresh : \A other \in fresh : id <= other
       IN  positionStore' =
               [positionStore EXCEPT !.positions = Append(@, WithId(newPos, id))]
    /\ PositionsAssigned(positionStore'.positions)
    /\ UNCHANGED result

togglePosition(id) ==
    /\ ~isDragging
    /\ fn' = "togglePosition"
    /\ UNCHANGED importVars
    /\ arg' = [id |-> id]
    /\ LET toggle(p) == IF p.id = id THEN Toggled(p) ELSE p
       IN  positionStore' = [positionStore EXCEPT !.positions = [i \in 1 .. Len(@) |-> toggle(@[i])]]
    /\ PositionsAssigned(positionStore'.positions)
    /\ UNCHANGED result

updatePositionQuantity(id, quantity) ==
    /\ ~isDragging
    /\ fn' = "updatePositionQuantity"
    /\ UNCHANGED importVars
    /\ arg' = [id |-> id, quantity |-> quantity]
    /\ IF Lt(quantity, FxOf(1, 10)) \/ Gt(quantity, 1000 * Scale)
       THEN UNCHANGED <<positionStore, chartVars>>
       ELSE /\ LET rounded == roundQuantity(quantity)
                   update(p) == IF p.id = id THEN [p EXCEPT !.quantity = rounded] ELSE p
               IN  positionStore' =
                       [positionStore EXCEPT !.positions = [i \in 1 .. Len(@) |-> update(@[i])]]
            /\ PositionsAssigned(positionStore'.positions)
    /\ UNCHANGED result

removePosition(id) ==
    /\ ~isDragging
    /\ fn' = "removePosition"
    /\ UNCHANGED importVars
    /\ arg' = [id |-> id]
    /\ LET keep(p) == p.id # id
           kept == SelectSeq(positionStore.positions, keep)
       IN  positionStore' =
               [positionStore EXCEPT !.positions = kept,
                                     !.daysToExpiry = IF Len(kept) = 0 THEN 0 ELSE @]
    /\ PositionsAssigned(positionStore'.positions)
    /\ UNCHANGED result

clearAllPositions ==
    /\ ~isDragging
    /\ fn' = "clearAllPositions"
    /\ UNCHANGED importVars
    /\ arg' = <<>>
    /\ positionStore' = [positionStore EXCEPT !.positions = <<>>, !.daysToExpiry = 0]
    /\ PositionsAssigned(positionStore'.positions)
    /\ UNCHANGED result

setPositions(newPositions) ==
    /\ ~isDragging
    /\ fn' = "setPositions"
    /\ UNCHANGED importVars
    /\ arg' = [newPositions |-> newPositions]
    /\ positionStore' = [positionStore EXCEPT !.positions = newPositions]
    /\ PositionsAssigned(positionStore'.positions)
    /\ UNCHANGED result

setUnderlyingPrice(price) ==
    /\ ~isDragging
    /\ fn' = "setUnderlyingPrice"
    /\ UNCHANGED importVars
    /\ arg' = [price |-> price]
    /\ positionStore' =
         IF Gt(price, 0) THEN [positionStore EXCEPT !.underlyingPrice = price]
         ELSE positionStore
    /\ UNCHANGED <<result, chartVars>>

\* setVolatility accepting every positive volatility
setVolatilityNoCeiling(iv) ==
    /\ ~isDragging
    /\ fn' = "setVolatility"
    /\ UNCHANGED importVars
    /\ arg' = [iv |-> iv]
    /\ positionStore' =
         IF Gt(iv, 0) THEN [positionStore EXCEPT !.volatility = iv]
         ELSE positionStore
    /\ UNCHANGED <<result, chartVars>>

setVolatility(iv) ==
    /\ ~isDragging
    /\ fn' = "setVolatility"
    /\ UNCHANGED importVars
    /\ arg' = [iv |-> iv]
    /\ positionStore' =
         IF Gt(iv, 0) /\ Le(iv, 5 * Scale) THEN [positionStore EXCEPT !.volatility = iv]
         ELSE positionStore
    /\ UNCHANGED <<result, chartVars>>

setRiskFreeRate(rate) ==
    /\ ~isDragging
    /\ fn' = "setRiskFreeRate"
    /\ UNCHANGED importVars
    /\ arg' = [rate |-> rate]
    /\ positionStore' = [positionStore EXCEPT !.riskFreeRate = rate]
    /\ UNCHANGED <<result, chartVars>>

setDaysToExpiry(days) ==
    /\ ~isDragging
    /\ fn' = "setDaysToExpiry"
    /\ UNCHANGED importVars
    /\ arg' = [days |-> days]
    /\ positionStore' =
         IF Ge(days, 0) THEN [positionStore EXCEPT !.daysToExpiry = days]
         ELSE positionStore
    /\ UNCHANGED <<result, chartVars>>

setDenomination(d) ==
    /\ ~isDragging
    /\ fn' = "setDenomination"
    /\ UNCHANGED importVars
    /\ arg' = [d |-> d]
    /\ positionStore' = [positionStore EXCEPT !.denomination = d]
    /\ UNCHANGED <<result, chartVars>>

StoreInit ==
    /\ fn = "none"
    /\ arg = <<>>
    /\ result = 0
    /\ \E stored \in ImportedLists : StoreConstructed(stored)
    /\ ChartMounted
    /\ ImportMounted

StoreNext ==
    \/ \E newPos \in NewPositions : addPosition(newPos)
    \/ \E id \in Ids : togglePosition(id)
    \/ \E id \in Ids, quantity \in QuantityArgs : updatePositionQuantity(id, quantity)
    \/ \E id \in Ids : removePosition(id)
    \/ clearAllPositions
    \/ \E newPositions \in ImportedLists : setPositions(newPositions)
    \/ \E price \in PriceArgs : setUnderlyingPrice(price)
    \/ \E iv \in VolatilityArgs : setVolatility(iv)
    \/ \E rate \in RateArgs : setRiskFreeRate(rate)
    \/ \E days \in DaysArgs : setDaysToExpiry(days)
    \/ \E d \in {"usd", "btc"} : setDenomination(d)

StoreSpec == StoreInit /\ [][StoreNext]_vars

\* the store and the chart after the spot price was entered
ViewSpots == {20 * Scale, 100 * Scale}

\* drags by a number of pixels along the price axis (none when the pointer
\* moves vertically) and wheel steps at the middle of the chart
ZoomInputs ==
    [type : {"pan"}, dx : {-800 * Scale, 0, 400 * Scale}]
    \cup [type : {"wheel"}, factor : {Half, 2 * Scale}, at : {460 * Scale}]

\* the transform d3-zoom keeps on the element after the input
Transformed(transform, input) ==
    IF input.type = "pan" THEN Panned(transform, input.dx)
    ELSE Wheeled(transform, input.factor, input.at)

\* zoom.on('start')
zoomStart ==
    /\ svgRef /\ ~isDragging
    /\ fn' = "zoomStart"
    /\ UNCHANGED importVars
    /\ arg' = <<>>
    /\ isDragging' = TRUE
    /\ hasActualMovement' = FALSE
    /\ referenceScale' = currentXDomain(viewDomain, customPriceRange,
                              positionStore.positions, positionStore.underlyingPrice)
    /\ UNCHANGED <<result, positionStore, customPriceRange, viewDomain,
                   previousPositionCount, svgRef, zoomTransform, moves>>

\* zoom.on('zoom') pinning the transformed domain as it is
zoomUnclamped(input) ==
    /\ isDragging /\ moves < MaxMoves
    /\ fn' = "zoom"
    /\ UNCHANGED importVars
    /\ arg' = input
    /\ moves' = moves + 1
    /\ zoomTransform' = Transformed(zoomTransform, input)
    /\ IF referenceScale = Null
       THEN UNCHANGED <<hasActualMovement, viewDomain>>
       ELSE /\ hasActualMovement' = TRUE
            /\ viewDomain' = PinnedDomainUnclamped(zoomTransform', referenceScale)
    /\ UNCHANGED <<result, positionStore, customPriceRange, isDragging, referenceScale,
                   previousPositionCount, svgRef>>

\* zoom.on('zoom'), delivered by d3-zoom with the element's new transform
zoom(input) ==
    /\ isDragging /\ moves < MaxMoves
    /\ fn' = "zoom"
    /\ UNCHANGED importVars
    /\ arg' = input
    /\ moves' = moves + 1
    /\ zoomTransform' = Transformed(zoomTransform, input)
    /\ IF referenceScale = Null
       THEN UNCHANGED <<hasActualMovement, viewDomain>>
       ELSE /\ hasActualMovement' = TRUE
            /\ viewDomain' = PinnedDomain(zoomTransform', referenceScale)
    /\ UNCHANGED <<result, positionStore, customPriceRange, isDragging, referenceScale,
                   previousPositionCount, svgRef>>

\* checkAndExtendRange: the assignments to customPriceRange and to the
\* element's transform
checkAndExtendRange ==
    IF RangeIsExtended(viewDomain, customPriceRange, positionStore.positions,
                       positionStore.underlyingPrice)
    THEN /\ customPriceRange' =
              ConstrainedRange(currentXDomain(viewDomain, customPriceRange,
                                   positionStore.positions, positionStore.underlyingPrice),
                               positionStore.underlyingPrice)
         /\ zoomTransform' = IF svgRef THEN zoomIdentity ELSE zoomTransform
    ELSE UNCHANGED <<customPriceRange, zoomTransform>>

\* zoom.on('end') checking the range after every gesture, moved or not
zoomEndAlwaysChecking ==
    /\ isDragging
    /\ fn' = "zoomEnd"
    /\ UNCHANGED importVars
    /\ arg' = <<>>
    /\ isDragging' = FALSE
    /\ referenceScale' = Null
    /\ checkAndExtendRange
    /\ hasActualMovement' = FALSE
    /\ UNCHANGED <<result, positionStore, viewDomain, previousPositionCount, svgRef, moves>>

\* zoom.on('end')
zoomEnd ==
    /\ isDragging
    /\ fn' = "zoomEnd"
    /\ UNCHANGED importVars
    /\ arg' = <<>>
    /\ isDragging' = FALSE
    /\ referenceScale' = Null
    /\ IF hasActualMovement THEN checkAndExtendRange
       ELSE UNCHANGED <<customPriceRange, zoomTransform>>
    /\ hasActualMovement' = FALSE
    /\ UNCHANGED <<result, positionStore, viewDomain, previousPositionCount, svgRef, moves>>

\* resetZoom leaving the custom price range in place
resetZoomViewOnly ==
    /\ svgRef /\ ~isDragging
    /\ fn' = "resetZoom"
    /\ UNCHANGED importVars
    /\ arg' = <<>>
    /\ zoomTransform' = zoomIdentity
    /\ viewDomain' = Null
    /\ UNCHANGED <<result, positionStore, customPriceRange, isDragging, referenceScale,
                   hasActualMovement, previousPositionCount, svgRef, moves>>

\* resetZoom, on a double click of the chart or a click of Reset Zoom
resetZoom ==
    /\ svgRef /\ ~isDragging
    /\ fn' = "resetZoom"
    /\ UNCHANGED importVars
    /\ arg' = <<>>
    /\ zoomTransform' = zoomIdentity
    /\ customPriceRange' = Null
    /\ viewDomain' = Null
    /\ UNCHANGED <<result, positionStore, isDragging, referenceScale,
                   hasActualMovement, previousPositionCount, svgRef, moves>>

ViewInit ==
    /\ fn = "none"
    /\ arg = <<>>
    /\ result = 0
    /\ \E stored \in ImportedLists, spot \in ViewSpots :
         positionStore =
             [positions |-> stored, underlyingPrice |-> spot,
              volatility |-> FxOf(8, 10), riskFreeRate |-> 0, daysToExpiry |-> 0,
              denomination |-> "usd"]
    /\ ChartMounted
    /\ ImportMounted

ViewNext ==
    \/ zoomStart
    \/ \E input \in ZoomInputs : zoom(input)
    \/ zoomEnd
    \/ resetZoom
    \/ \E newPos \in NewPositions : addPosition(newPos)
    \/ \E id \in Ids : removePosition(id)
    \/ clearAllPositions

ViewSpec == ViewInit /\ [][ViewNext]_vars

---------------------------------------------------------------------------
(* Expiry slider *)

\* getMaxDaysToExpiry: 365 without positions, else the greatest number of
\* days to an expiry (expiryDate is in whole days from now), at least 1
getMaxDaysToExpiry(positions) ==
    IF Len(positions) = 0 THEN 365 * Scale
    ELSE LET maxExpiry ==
                 MathMaxOf([i \in 1 .. Len(positions) |->
                               positions[i].expiryDate * Scale])
         IN  MathMax(maxExpiry, Scale)

\* expiries 30 .. 30 * MaxExpiryStep days from now
MaxExpiryStep == 2

\* the positions added or imported while the slider is used
SliderPositions ==
    [optionType : {"call"}, direction : {"long"}, strike : {150 * Scale},
     premium : {5 * Scale}, quantity : {Scale},
     expiryDate : {30 * i : i \in 1 .. MaxExpiryStep},
     premiumBtc : {<<>>}, btcPriceAtEntry : {80 * Scale},
     denominationAtEntry : {"usd"}, enabled : {"undefined"}]

SliderLists ==
    {<<>>} \cup {<<WithId(newPos, 1)>> : newPos \in SliderPositions}

\* positions of the range input: its ends (today, expiry) and its middle
SliderValues(maxDays) == {0, ((maxDays \div Scale) \div 2) * Scale, maxDays}

\* handleInput of the slider: slider 0 is today (maxDays), slider maxDays is
\* expiry (0)
handleInput(value) ==
    LET maxDays == getMaxDaysToExpiry(positionStore.positions)
    IN  setDaysToExpiry(maxDays - value)

SliderInit ==
    /\ fn = "none"
    /\ arg = <<>>
    /\ result = 0
    /\ \E stored \in SliderLists : StoreConstructed(stored)
    /\ ChartMounted
    /\ ImportMounted

SliderNext ==
    \/ \E value \in SliderValues(getMaxDaysToExpiry(positionStore.positions)) :
           handleInput(value)
    \/ \E newPos \in SliderPositions : addPosition(newPos)
    \/ \E id \in Ids : removePosition(id)
    \/ clearAllPositions
    \/ \E newPositions \in SliderLists : setPositions(newPositions)

SliderSpec == SliderInit /\ [][SliderNext]_vars

\* at most MaxCurvePositions positions are charted
MaxCurvePositions == 2

\* the positions stored when the curves are examined
CurvePositions ==
    <<[optionType |-> "call", direction |-> "long", strike |-> 100 * Scale,
       premium |-> 5 * Scale, quantity |-> Scale, expiryDate |-> 30,
       premiumBtc |-> <<>>, btcPriceAtEntry |-> 80 * Scale,
       denominationAtEntry |-> "usd", enabled |-> "true"],
      [optionType |-> "put", direction |-> "short", strike |-> 90 * Scale,
       premium |-> 8 * Scale, quantity |-> Half, expiryDate |-> 30,
       premiumBtc |-> <<FxOf(1, 10)>>, btcPriceAtEntry |-> 80 * Scale,
       denominationAtEntry |-> "btc", enabled |-> "undefined"]>>

\* the lists of 1 .. MaxCurvePositions of them, in the order above (the sums
\* do not depend on the order)
CurvePositionLists ==
    UNION {{[i \in 1 .. n |-> [id |-> i] @@ CurvePositions[choice[i]]] :
                choice \in {c \in [1 .. n -> 1 .. Len(CurvePositions)] :
                                \A i \in 1 .. n - 1 : c[i] <= c[i + 1]}} :
               n \in 1 .. MaxCurvePositions}

\* the store after the spot price, the days to expiry and the denomination
\* were set
CurveInit ==
    /\ fn = "none"
    /\ arg = <<>>
    /\ result = 0
    /\ \E stored \in CurvePositionLists, days \in {0, 30 * Scale}, d \in {"usd", "btc"} :
         positionStore =
             [positions |-> stored, underlyingPrice |-> 100 * Scale,
              volatility |-> FxOf(8, 10), riskFreeRate |-> 0, daysToExpiry |-> days,
              denomination |-> d]
    /\ ChartMounted
    /\ ImportMounted

CurveNext == \E id \in Ids : togglePosition(id)

CurveSpec == CurveInit /\ [][CurveNext]_vars

---------------------------------------------------------------------------
(* Add form *)

\* at most MaxEntered positions are entered through the form
MaxEntered == 1

\* the form's fields after parseFloat and new Date: NaN for a text that is no
\* number, the expiry in days from today
FormStates ==
    [optionType : {"call"}, direction : {"short"}, strike : {100 * Scale},
     premium : {NaN, -Scale, FxOf(5, 100)}, quantity : {FxOf(5, 100), FxOf(125, 100)},
     expiryDate : {0, 30}]

\* validate(): no field is in error
validate(formState, store) ==
    /\ ~(formState.strike = NaN \/ Le(formState.strike, 0))
    /\ ~(formState.premium = NaN \/ Lt(formState.premium, 0))
    /\ ~(store.denomination = "btc" /\ Le(store.underlyingPrice, 0))
    /\ ~(formState.quantity = NaN \/ Lt(formState.quantity, FxOf(1, 10))
           \/ Gt(formState.quantity, 1000 * Scale))
    /\ ~(formState.expiryDate = NaN \/ Le(formState.expiryDate, 0))

\* handleSubmit deriving premiumBtc from the premium whatever the denomination
SubmittedPositionBtcDerived(formState, store) ==
    LET enteredPremium == formState.premium
        currentBtcPrice == store.underlyingPrice
        premiumInUsd == IF store.denomination = "btc"
                        THEN FxMul(enteredPremium, currentBtcPrice) ELSE enteredPremium
    IN  [optionType |-> formState.optionType, direction |-> formState.direction,
         strike |-> formState.strike, premium |-> premiumInUsd,
         quantity |-> roundQuantity(formState.quantity),
         expiryDate |-> formState.expiryDate,
         premiumBtc |-> <<FxDiv(premiumInUsd, currentBtcPrice)>>,
         btcPriceAtEntry |-> currentBtcPrice,
         denominationAtEntry |-> store.denomination, enabled |-> "undefined"]

\* handleSubmit: the position handed to addPosition
SubmittedPosition(formState, store) ==
    LET enteredPremium == formState.premium
        currentDenomination == store.denomination
        currentBtcPrice == store.underlyingPrice
        premiumInUsd == IF currentDenomination = "btc"
                        THEN FxMul(enteredPremium, currentBtcPrice) ELSE enteredPremium
        premiumInBtc == IF currentDenomination = "btc" THEN <<enteredPremium>> ELSE <<>>
    IN  [optionType |-> formState.optionType, direction |-> formState.direction,
         strike |-> formState.strike, premium |-> premiumInUsd,
         quantity |-> roundQuantity(formState.quantity),
         expiryDate |-> formState.expiryDate,
         premiumBtc |-> premiumInBtc, btcPriceAtEntry |-> currentBtcPrice,
         denominationAtEntry |-> currentDenomination, enabled |-> "undefined"]

\* handleSubmit of the add form, with addPosition of the store
handleSubmit(formState) ==
    /\ ~isDragging
    /\ Len(positionStore.positions) < MaxEntered
    /\ fn' = "handleSubmit"
    /\ arg' = [formState |-> formState]
    /\ IF ~validate(formState, positionStore)
       THEN UNCHANGED <<positionStore, chartVars>>
       ELSE /\ LET fresh == FreshIds(positionStore.positions)
                   id == CHOOSE id \in fresh : \A other \in fresh : id <= other
                   newPos == SubmittedPosition(formState, positionStore)
               IN  positionStore' =
                       [positionStore EXCEPT !.positions = Append(@, WithId(newPos, id))]
            /\ PositionsAssigned(positionStore'.positions)
    /\ UNCHANGED <<result, importVars>>

\* numbers handed to the setters while positions are entered
FormPriceArgs == {0, 120 * Scale}
FormVolatilityArgs == {FxOf(5, 10)}
FormRateArgs == {FxOf(5, 100)}
FormDaysArgs == {10 * Scale}
FormQuantityArgs == {FxOf(25, 100)}

FormInit ==
    /\ fn = "none"
    /\ arg = <<>>
    /\ result = 0
    /\ StoreConstructed(<<>>)
    /\ ChartMounted
    /\ ImportMounted

FormNext ==
    \/ \E formState \in FormStates : handleSubmit(formState)
    \/ \E id \in Ids : togglePosition(id)
    \/ \E id \in Ids, quantity \in FormQuantityArgs : updatePositionQuantity(id, quantity)
    \/ \E id \in Ids : removePosition(id)
    \/ \E price \in FormPriceArgs : setUnderlyingPrice(price)
    \/ \E iv \in FormVolatilityArgs : setVolatility(iv)
    \/ \E rate \in FormRateArgs : setRiskFreeRate(rate)
    \/ \E days \in FormDaysArgs : setDaysToExpiry(days)
    \/ \E d \in {"usd", "btc"} : setDenomination(d)

FormSpec == FormInit /\ [][FormNext]_vars

---------------------------------------------------------------------------
(* Import of positions *)

\* the version this build writes and understands
EXPORT_VERSION == 1

\* the values JSON.parse returns, with their typeof; a property an object
\* lacks reads as undefined
JsonNumber(n) == [type |-> "number", value |-> n]
JsonString(str) == [type |-> "string", value |-> str]
JsonBoolean(b) == [type |-> "boolean", value |-> b]
JsonUndefined == [type |-> "undefined", value |-> 0]
JsonNull == [type |-> "null", value |-> 0]
JsonObject(fields) == [type |-> "object", value |-> fields]
JsonArray(items) == [type |-> "array", value |-> items]

\* the text of a file that JSON.parse rejects
NotJson == [type |-> "SyntaxError", value |-> 0]

\* typeof v === 'object' && v !== null (an array is an object too)
IsJsonObject(v) == v.type \in {"object", "array"}
IsJsonNumber(v) == v.type = "number"
IsJsonString(v) == v.type = "string"

\* obj[name] of a parsed object
PropertyOf(obj, name) ==
    IF obj.type = "object" /\ name \in DOMAIN obj.value THEN obj.value[name]
    ELSE JsonUndefined

\* new Date(str).getTime() in days from now: NaN for a string that is no date
DateParse(str) ==
    IF str = "2026-12-05T00:00:00.000Z" THEN 30
    ELSE IF str = "2027-01-04T00:00:00.000Z" THEN 60
    ELSE NaN

isValidOptionType(v) == IsJsonString(v) /\ v.value \in {"call", "put"}
isValidDirection(v) == IsJsonString(v) /\ v.value \in {"long", "short"}
isValidDenomination(v) == IsJsonString(v) /\ v.value \in {"usd", "btc"}
isValidDate(v) == IsJsonString(v) /\ DateParse(v.value) # NaN

Thrown(index, message) == [success |-> FALSE, error |-> <<"Position", index + 1, message>>]

\* the position validatePosition returns, with the Date that
\* parseImportedJson makes of expiryDate
Validated(p) ==
    [id |-> p.id.value, optionType |-> p.optionType.value,
     direction |-> p.direction.value, strike |-> p.strike.value,
     premium |-> p.premium.value, quantity |-> p.quantity.value,
     expiryDate |-> DateParse(p.expiryDate.value),
     premiumBtc |-> IF IsJsonNumber(p.premiumBtc) THEN <<p.premiumBtc.value>> ELSE <<>>,
     btcPriceAtEntry |-> p.btcPriceAtEntry.value,
     denominationAtEntry |-> p.denominationAtEntry.value,
     enabled |-> IF p.enabled.type = "boolean"
                 THEN (IF p.enabled.value THEN "true" ELSE "false")
                 ELSE "true"]

\* the fields of pos, undefined where pos has none
FieldsOf(pos) ==
    [name \in {"id", "optionType", "direction", "strike", "premium", "quantity",
               "expiryDate", "premiumBtc", "btcPriceAtEntry", "denominationAtEntry",
               "enabled"} |-> PropertyOf(pos, name)]

\* validatePosition accepting every number as a strike
validatePositionAnyStrike(pos, index) ==
    LET p == FieldsOf(pos)
    IN  IF ~IsJsonObject(pos) THEN Thrown(index, "Invalid format")
        ELSE IF ~IsJsonString(p.id) \/ p.id.value = ""
        THEN Thrown(index, "Missing or invalid id")
        ELSE IF ~isValidOptionType(p.optionType) THEN Thrown(index, "Invalid optionType")
        ELSE IF ~isValidDirection(p.direction) THEN Thrown(index, "Invalid direction")
        ELSE IF ~IsJsonNumber(p.strike) THEN Thrown(index, "Invalid strike price")
        ELSE IF ~IsJsonNumber(p.premium) \/ Lt(p.premium.value, 0)
        THEN Thrown(index, "Invalid premium")
        ELSE IF ~IsJsonNumber(p.quantity) \/ Le(p.quantity.value, 0)
        THEN Thrown(index, "Invalid quantity")
        ELSE IF ~isValidDate(p.expiryDate) THEN Thrown(index, "Invalid expiry date")
        ELSE IF ~IsJsonNumber(p.btcPriceAtEntry) \/ Le(p.btcPriceAtEntry.value, 0)
        THEN Thrown(index, "Invalid btcPriceAtEntry")
        ELSE IF ~isValidDenomination(p.denominationAtEntry)
        THEN Thrown(index, "Invalid denominationAtEntry")
        ELSE [success |-> TRUE, position |-> Validated(p)]

\* validatePosition(pos, index): the validated position, or the error thrown
validatePosition(pos, index) ==
    LET p == FieldsOf(pos)
    IN  IF ~IsJsonObject(pos) THEN Thrown(index, "Invalid format")
        ELSE IF ~IsJsonString(p.id) \/ p.id.value = ""
        THEN Thrown(index, "Missing or invalid id")
        ELSE IF ~isValidOptionType(p.optionType) THEN Thrown(index, "Invalid optionType")
        ELSE IF ~isValidDirection(p.direction) THEN Thrown(index, "Invalid direction")
        ELSE IF ~IsJsonNumber(p.strike) \/ Le(p.strike.value, 0)
        THEN Thrown(index, "Invalid strike price")
        ELSE IF ~IsJsonNumber(p.premium) \/ Lt(p.premium.value, 0)
        THEN Thrown(index, "Invalid premium")
        ELSE IF ~IsJsonNumber(p.quantity) \/ Le(p.quantity.value, 0)
        THEN Thrown(index, "Invalid quantity")
        ELSE IF ~isValidDate(p.expiryDate) THEN Thrown(index, "Invalid expiry date")
        ELSE IF ~IsJsonNumber(p.btcPriceAtEntry) \/ Le(p.btcPriceAtEntry.value, 0)
        THEN Thrown(index, "Invalid btcPriceAtEntry")
        ELSE IF ~isValidDenomination(p.denominationAtEntry)
        THEN Thrown(index, "Invalid denominationAtEntry")
        ELSE [success |-> TRUE, position |-> Validated(p)]

\* parseImportedJson(jsonString), on the value JSON.parse makes of the text
parseImportedJson(data) ==
    IF data.type = "SyntaxError" THEN [success |-> FALSE, error |-> <<"Invalid JSON format">>]
    ELSE IF ~IsJsonObject(data)
    THEN [success |-> FALSE, error |-> <<"Invalid export file format">>]
    ELSE LET version == PropertyOf(data, "version")
             items   == PropertyOf(data, "positions")
         IN  IF ~IsJsonNumber(version)
             THEN [success |-> FALSE, error |-> <<"Missing version in export file">>]
             ELSE IF Gt(version.value, EXPORT_VERSION * Scale)
             THEN [success |-> FALSE, error |-> <<"Unsupported version", version.value>>]
             ELSE IF items.type # "array"
             THEN [success |-> FALSE, error |-> <<"Missing positions array in export file">>]
             ELSE LET validated ==
                          [i \in 1 .. Len(items.value) |->
                               validatePosition(items.value[i], i - 1)]
                      thrown == {i \in 1 .. Len(items.value) : ~validated[i].success}
                  IN  IF thrown = {}
                      THEN [success |-> TRUE,
                            positions |-> [i \in 1 .. Len(items.value) |->
                                               validated[i].position]]
                      ELSE LET first == CHOOSE i \in thrown : \A j \in thrown : i <= j
                           IN  [success |-> FALSE, error |-> validated[first].error]

\* at most MaxImported positions in an imported document
MaxImported == 2

\* a position as exportPositions writes it
ExportedPosition ==
    [id |-> JsonString("a"), optionType |-> JsonString("put"),
     direction |-> JsonString("short"), strike |-> JsonNumber(90 * Scale),
     premium |-> JsonNumber(0), quantity |-> JsonNumber(Half),
     expiryDate |-> JsonString("2026-12-05T00:00:00.000Z"),
     premiumBtc |-> JsonNumber(FxOf(1, 10)), btcPriceAtEntry |-> JsonNumber(80 * Scale),
     denominationAtEntry |-> JsonString("btc"), enabled |-> JsonBoolean(FALSE)]

\* one property of an exported position replaced by another value
Edits ==
    <<<<"id", JsonString("")>>, <<"id", JsonNumber(7 * Scale)>>,
      <<"optionType", JsonString("straddle")>>, <<"direction", JsonUndefined>>,
      <<"strike", JsonNumber(0)>>, <<"strike", JsonString("90")>>,
      <<"strike", JsonNumber(Infinity)>>,
      <<"premium", JsonNumber(-1)>>, <<"premium", JsonNull>>,
      <<"quantity", JsonNumber(0)>>, <<"quantity", JsonBoolean(TRUE)>>,
      <<"expiryDate", JsonString("soon")>>, <<"expiryDate", JsonNumber(30 * Scale)>>,
      <<"expiryDate", JsonString("2027-01-04T00:00:00.000Z")>>,
      <<"btcPriceAtEntry", JsonNumber(0)>>, <<"btcPriceAtEntry", JsonUndefined>>,
      <<"denominationAtEntry", JsonString("eur")>>,
      <<"premiumBtc", JsonString("0.1")>>, <<"premiumBtc", JsonUndefined>>,
      <<"enabled", JsonUndefined>>, <<"enabled", JsonString("no")>>>>

\* the elements met in the positions array of a document
JsonPositions ==
    <<JsonObject(ExportedPosition), JsonNull, JsonNumber(Scale)>>
        \o [e \in 1 .. Len(Edits) |->
                JsonObject([ExportedPosition EXCEPT ![Edits[e][1]] = Edits[e][2]])]

\* the versions met in a document
JsonVersions ==
    <<JsonString("1"), JsonNumber(-Scale), JsonNumber(Scale), JsonNumber(Scale + 1),
      JsonNumber(2 * Scale)>>

\* documents that are no export of positions
OtherDocuments ==
    <<NotJson, JsonNull, JsonNumber(Scale), JsonArray(<<>>),
      JsonObject([positions |-> JsonArray(<<>>)]),
      JsonObject([version |-> JsonNumber(Scale)]),
      JsonObject([version |-> JsonNumber(Scale),
                  positions |-> JsonObject(ExportedPosition)])>>

\* the files selected: one of OtherDocuments, or a version and the elements of
\* a positions array, each named by its place in the lists above
Selections ==
    [other : 1 .. Len(OtherDocuments), version : {0}, items : {<<>>}]
        \cup [other : {0}, version : 1 .. Len(JsonVersions),
              items : UNION {[1 .. n -> 1 .. Len(JsonPositions)] : n \in 0 .. MaxImported}]

\* the content of a file selected
ContentOf(selection) ==
    IF selection.other # 0 THEN OtherDocuments[selection.other]
    ELSE JsonObject([version |-> JsonVersions[selection.version],
                     positions |-> JsonArray([i \in 1 .. Len(selection.items) |->
                                                  JsonPositions[selection.items[i]]])])

\* the positions found in storage when the store is constructed
StoredBeforeImport ==
    {<<>>,
     <<[id |-> "z", optionType |-> "call", direction |-> "long", strike |-> 150 * Scale,
        premium |-> 5 * Scale, quantity |-> Scale, expiryDate |-> 30,
        premiumBtc |-> <<>>, btcPriceAtEntry |-> 80 * Scale,
        denominationAtEntry |-> "usd", enabled |-> "true"]>>}

\* handleFileSelect: the file chosen (arg names it) starts to be read
handleFileSelect ==
    /\ fileReader = Null
    /\ fn' = "handleFileSelect"
    /\ fileReader' = <<ContentOf(arg)>>
    /\ UNCHANGED <<arg, result, positionStore, chartVars, errorMessage, showConfirmDialog,
                   pendingPositions>>

\* reader.onload: the text read is parsed and handed over
readerOnload ==
    /\ fileReader # Null
    /\ fn' = "reader.onload"
    /\ UNCHANGED arg
    /\ fileReader' = Null
    /\ result' = parseImportedJson(fileReader[1])
    /\ IF ~result'.success
       THEN /\ errorMessage' = <<result'.error>>
            /\ UNCHANGED <<pendingPositions, showConfirmDialog, positionStore, chartVars>>
       ELSE IF hasPositions(positionStore.positions)
       THEN /\ pendingPositions' = <<result'.positions>>
            /\ showConfirmDialog' = TRUE
            /\ UNCHANGED <<errorMessage, positionStore, chartVars>>
       ELSE /\ positionStore' = [positionStore EXCEPT !.positions = result'.positions]
            /\ PositionsAssigned(positionStore'.positions)
            /\ UNCHANGED <<errorMessage, pendingPositions, showConfirmDialog>>

\* setTimeout(() => (errorMessage = null), 5000)
errorTimeout ==
    /\ errorMessage # Null
    /\ fn' = "errorTimeout"
    /\ errorMessage' = Null
    /\ UNCHANGED <<arg, result, positionStore, chartVars, showConfirmDialog,
                   pendingPositions, fileReader>>

confirmImport ==
    /\ showConfirmDialog
    /\ fn' = "confirmImport"
    /\ IF pendingPositions # Null
       THEN /\ positionStore' = [positionStore EXCEPT !.positions = pendingPositions[1]]
            /\ PositionsAssigned(positionStore'.positions)
       ELSE UNCHANGED <<positionStore, chartVars>>
    /\ showConfirmDialog' = FALSE
    /\ pendingPositions' = Null
    /\ UNCHANGED <<arg, result, errorMessage, fileReader>>

cancelImport ==
    /\ showConfirmDialog
    /\ fn' = "cancelImport"
    /\ showConfirmDialog' = FALSE
    /\ pendingPositions' = Null
    /\ UNCHANGED <<arg, result, positionStore, chartVars, errorMessage, fileReader>>

ImportInit ==
    /\ fn = "none"
    /\ arg \in Selections
    /\ result = 0
    /\ \E stored \in StoredBeforeImport : StoreConstructed(stored)
    /\ ChartMounted
    /\ ImportMounted

ImportNext ==
    \/ handleFileSelect
    \/ readerOnload
    \/ errorTimeout
    \/ confirmImport
    \/ cancelImport

ImportSpec == ImportInit /\ [][ImportNext]_vars

---------------------------------------------------------------------------
(* Properties of the pricing functions *)

\* C1: when T <= 0, callPrice returns max(0, S - K) and putPrice returns
\* max(0, K - S), whatever r and sigma are; in particular
\* callPrice(110,100,0) = 10, callPrice(90,100,0) = 0, putPrice(90,100,0) = 10
\* and putPrice(110,100,0) = 0.
C1_IntrinsicAtExpiry ==
    arg.T <= 0 =>
        /\ fn = "callPrice" =>
             /\ result = (IF arg.S > arg.K THEN arg.S - arg.K ELSE 0)
             /\ arg.S = 110 * Scale /\ arg.K = 100 * Scale => result = 10 * Scale
             /\ arg.S = 90 * Scale /\ arg.K = 100 * Scale => result = 0
        /\ fn = "putPrice" =>
             /\ result = (IF arg.K > arg.S THEN arg.K - arg.S ELSE 0)
             /\ arg.S = 90 * Scale /\ arg.K = 100 * Scale => result = 10 * Scale
             /\ arg.S = 110 * Scale /\ arg.K = 100 * Scale => result = 0

\* callPrice was applied out of the money at T <= 0 with nonzero r and sigma
C1_Witness ==
    /\ fn = "callPrice"
    /\ arg.T < 0 /\ arg.S < arg.K /\ arg.r # 0 /\ arg.sigma > 0
    /\ result = 0

\* C2: when T <= 0, delta is 1 for a call iff S > K (else 0) and -1 for a put
\* iff S < K (else 0); at the money both are 0.
C2_DeltaAtExpiry ==
    (fn = "delta" /\ arg.T <= 0) =>
        /\ arg.isCall => (result = Scale <=> arg.S > arg.K) /\ result \in {0, Scale}
        /\ ~arg.isCall => (result = -Scale <=> arg.S < arg.K) /\ result \in {0, -Scale}
        /\ arg.S = arg.K => result = 0

\* delta was applied at the money at T = 0
C2_Witness ==
    fn = "delta" /\ arg.T = 0 /\ arg.S = arg.K /\ ~arg.isCall /\ result = 0

\* the tolerance of the parity check: two units of resolution per unit of
\* price (the accuracy of one value of the normal CDF) and two more for the
\* roundings of the products
ParityTolerance(S, K) == FxMul(S + K, 2) + 2

\* C3: for S > 0, K > 0, T > 0, sigma > 0 and any r, callPrice - putPrice
\* equals S - K * e^(-rT) within numerical tolerance.
C3_PutCallParity ==
    (fn = "parity" /\ arg.S > 0 /\ arg.K > 0 /\ arg.T > 0 /\ arg.sigma > 0) =>
        MathAbs(result.parityDiff - result.expected) <= ParityTolerance(arg.S, arg.K)

\* the parity test ran on priced options with d1 = 0, where both N(d1) and
\* N(-d1) take the branch for x >= 0
C3_Witness ==
    /\ fn = "parity"
    /\ arg.T > 0 /\ arg.sigma > 0 /\ arg.r < 0
    /\ d1(arg.S, arg.K, arg.T, arg.r, arg.sigma) = 0
    /\ result.parityDiff # 0

---------------------------------------------------------------------------
(* Properties of the payoff functions *)

\* +1 for long, -1 for short
SignOf(position) == IF position.direction = "long" THEN 1 ELSE -1

\* max(0, S - K) for a call, max(0, K - S) for a put
IntrinsicOf(position, S) ==
    IF position.optionType = "call"
    THEN (IF S > position.strike THEN S - position.strike ELSE 0)
    ELSE (IF position.strike > S THEN position.strike - S ELSE 0)

\* max(0, 1 - K/S) for a call, max(0, K/S - 1) for a put, S > 0
IntrinsicBtcOf(position, S) ==
    LET ratio == FxDiv(position.strike, S)
    IN  IF position.optionType = "call"
        THEN (IF ratio < Scale THEN Scale - ratio ELSE 0)
        ELSE (IF ratio > Scale THEN ratio - Scale ELSE 0)

\* premiumBtc when present, premium / btcPriceAtEntry otherwise
EnteredPremiumBtc(position) ==
    IF Len(position.premiumBtc) = 1 THEN position.premiumBtc[1]
    ELSE FxDiv(position.premium, position.btcPriceAtEntry)

Opposite(position) ==
    [position EXCEPT !.direction = IF @ = "long" THEN "short" ELSE "long"]

\* C4: calculatePositionPnl returns (intrinsic - premium) * sign * quantity;
\* the short position's PnL is the negation of the long position's PnL at
\* every price (long call S=110, K=100, premium=5, qty=1 gives 5, short -5).
C4_PositionPnl ==
    fn = "calculatePositionPnl" =>
        LET pos == arg.position
            S   == arg.underlyingPrice
        IN  /\ result = SignOf(pos) * FxMul(IntrinsicOf(pos, S) - pos.premium, pos.quantity)
            /\ calculatePositionPnl(Opposite(pos), S) = -result
            /\ ( /\ pos.optionType = "call" /\ S = 110 * Scale
                 /\ pos.strike = 100 * Scale /\ pos.premium = 5 * Scale
                 /\ pos.quantity = Scale )
               => result = SignOf(pos) * 5 * Scale

\* the short call of the example: S=110, K=100, premium=5, qty=1 gives -5
C4_Witness ==
    /\ fn = "calculatePositionPnl"
    /\ arg.position.optionType = "call" /\ arg.position.direction = "short"
    /\ arg.underlyingPrice = 110 * Scale /\ arg.position.strike = 100 * Scale
    /\ arg.position.premium = 5 * Scale /\ arg.position.quantity = Scale
    /\ result = -5 * Scale

\* C5: with daysToExpiry = 0 the quote-currency time-valued PnL equals the
\* at-expiry PnL at the same price, for every position, volatility and rate.
C5_TimeValueAtExpiry ==
    (fn = "calculatePositionPnlWithTimeValue" /\ arg.daysToExpiry = 0) =>
        result = calculatePositionPnl(arg.position, arg.underlyingPrice)

\* the time-valued PnL of an at-the-money short put was taken at 0 days
C5_Witness ==
    /\ fn = "calculatePositionPnlWithTimeValue"
    /\ arg.daysToExpiry = 0 /\ arg.riskFreeRate > 0
    /\ arg.position.optionType = "put" /\ arg.position.direction = "short"
    /\ arg.underlyingPrice = arg.position.strike
    /\ arg.position.premium > 0
    /\ result = FxMul(arg.position.premium, arg.position.quantity)

\* C6: for S > 0 calculatePositionPnlBtc returns
\* (intrinsicBtc - premiumInBtc) * sign * quantity, with premiumInBtc the
\* position's premiumBtc when present and premium / btcPriceAtEntry otherwise.
C6_PositionPnlBtc ==
    (fn = "calculatePositionPnlBtc" /\ arg.underlyingPrice > 0) =>
        LET pos == arg.position
            S   == arg.underlyingPrice
        IN  result = SignOf(pos)
                     * FxMul(IntrinsicBtcOf(pos, S) - EnteredPremiumBtc(pos), pos.quantity)

\* an in-the-money put whose premiumBtc disagrees with premium / btcPriceAtEntry
C6_Witness ==
    /\ fn = "calculatePositionPnlBtc"
    /\ arg.underlyingPrice > 0 /\ arg.underlyingPrice < arg.position.strike
    /\ arg.position.optionType = "put"
    /\ Len(arg.position.premiumBtc) = 1
    /\ arg.position.premiumBtc[1]
         # FxDiv(arg.position.premium, arg.position.btcPriceAtEntry)
    /\ result # 0

\* C7: for S <= 0 a call returns -premiumInBtc * sign * quantity and a put
\* returns the PnL calculatePositionPnlBtc gives that put at S = 1.
C7_ZeroPriceFloor ==
    (fn = "calculatePositionPnlBtc" /\ arg.underlyingPrice <= 0) =>
        LET pos == arg.position
        IN  IF pos.optionType = "call"
            THEN result = -SignOf(pos) * FxMul(EnteredPremiumBtc(pos), pos.quantity)
            ELSE result = calculatePositionPnlBtc(pos, Scale)

\* C8: for a long call the underlying-currency PnL is non-decreasing in S over
\* S > 0, never above (1 - p) * q, and within q * K / S of (1 - p) * q once
\* S >= K, so that it approaches (1 - p) * q as S grows.
C8_LongCallBtcCeiling ==
    ( /\ fn = "calculatePositionPnlBtc"
      /\ arg.position.optionType = "call" /\ arg.position.direction = "long" ) =>
        LET pos == arg.position
            S   == arg.underlyingPrice
            cap == FxMul(Scale - EnteredPremiumBtc(pos), pos.quantity)
        IN  /\ result <= cap
            /\ S > 0 =>
                 \A S2 \in PayoffPrices :
                     S2 >= S => calculatePositionPnlBtc(pos, S2) >= result
            /\ S >= pos.strike =>
                 cap - result <= FxMul(FxDiv(pos.strike, S), pos.quantity) + 1

\* a long call priced far above its strike, within 1% of a contract of the cap
C8_Witness ==
    /\ fn = "calculatePositionPnlBtc"
    /\ arg.position.optionType = "call" /\ arg.position.direction = "long"
    /\ arg.underlyingPrice = 10000 * Scale
    /\ result > 0
    /\ result < FxMul(Scale - EnteredPremiumBtc(arg.position), arg.position.quantity)
    /\ FxMul(Scale - EnteredPremiumBtc(arg.position), arg.position.quantity) - result
         <= FxOf(1, 100)

---------------------------------------------------------------------------
(* Properties of the exposure classifier *)

\* sum of f(positions[i]) over the legs i that satisfy keep
SumLegs(positions, keep(_), f(_)) ==
    LET sum[i \in 0 .. Len(positions)] ==
            IF i = 0 THEN 0
            ELSE sum[i - 1] + (IF keep(positions[i]) THEN f(positions[i]) ELSE 0)
    IN  sum[Len(positions)]

IsCall(pos) == pos.optionType = "call"
IsLong(pos) == pos.direction = "long"
IsShort(pos) == pos.direction = "short"
IsLongPut(pos) == pos.optionType = "put" /\ pos.direction = "long"
IsShortPut(pos) == pos.optionType = "put" /\ pos.direction = "short"
SignedQuantity(pos) == SignOf(pos) * pos.quantity
PremiumPaid(pos) == FxMul(pos.premium, pos.quantity)
StrikeLessPremium(pos) == FxMul(pos.strike - pos.premium, pos.quantity)

\* sum over the call legs of quantity * sign
NetCallExposure(positions) == SumLegs(positions, IsCall, SignedQuantity)

\* C9: in quote-currency settlement profit is unbounded iff the net call
\* exposure is > 0, loss is unbounded iff it is < 0, both sides are bounded
\* when it is 0; a single long call gives maxProfit unbounded and
\* maxLoss = -premium * quantity.
C9_UnboundedSides ==
    fn = "calculateTheoreticalMaxProfitLoss" =>
        LET positions == arg.positions
            net == NetCallExposure(positions)
        IN  /\ result.maxProfit = Unlimited <=> net > 0
            /\ result.maxLoss = Unlimited <=> net < 0
            /\ net = 0 => ~result.maxProfit.unlimited /\ ~result.maxLoss.unlimited
            /\ (Len(positions) = 1 /\ IsCall(positions[1]) /\ IsLong(positions[1])) =>
                 /\ result.maxProfit = Unlimited
                 /\ result.maxLoss = Finite(-PremiumPaid(positions[1]))

\* a long call and a short call of the same quantity: the call legs net to
\* zero and both sides are bounded
C9_Witness ==
    /\ fn = "calculateTheoreticalMaxProfitLoss"
    /\ Len(arg.positions) = 2
    /\ IsCall(arg.positions[1]) /\ IsLong(arg.positions[1])
    /\ IsCall(arg.positions[2]) /\ IsShort(arg.positions[2])
    /\ arg.positions[1].quantity = arg.positions[2].quantity
    /\ ~result.maxProfit.unlimited /\ ~result.maxLoss.unlimited

\* C10: every finite side is the sum over all positions of premium * quantity
\* to max loss for each long leg, (strike - premium) * quantity to max profit
\* for each long put, premium * quantity to max profit for each short leg and
\* (strike - premium) * quantity to max loss for each short put, maxLoss being
\* the negated sum; a single long put (K, p, q) gives maxProfit = (K - p) * q
\* and maxLoss = -p * q.
C10_FiniteSides ==
    fn = "calculateTheoreticalMaxProfitLoss" =>
        LET positions == arg.positions
        IN  /\ ~result.maxProfit.unlimited =>
                 result.maxProfit.value
                   = SumLegs(positions, IsLongPut, StrikeLessPremium)
                     + SumLegs(positions, IsShort, PremiumPaid)
            /\ ~result.maxLoss.unlimited =>
                 result.maxLoss.value
                   = -(SumLegs(positions, IsLong, PremiumPaid)
                       + SumLegs(positions, IsShortPut, StrikeLessPremium))
            /\ (Len(positions) = 1 /\ IsLongPut(positions[1])) =>
                 /\ result.maxProfit = Finite(StrikeLessPremium(positions[1]))
                 /\ result.maxLoss = Finite(-PremiumPaid(positions[1]))

\* a long put and a short put: both sides finite and nonzero
C10_Witness ==
    /\ fn = "calculateTheoreticalMaxProfitLoss"
    /\ Len(arg.positions) = 2
    /\ IsLongPut(arg.positions[1]) /\ IsShortPut(arg.positions[2])
    /\ ~result.maxProfit.unlimited /\ result.maxProfit.value > 0
    /\ ~result.maxLoss.unlimited /\ result.maxLoss.value < 0

IsPut(pos) == pos.optionType = "put"
IsLongCall(pos) == pos.optionType = "call" /\ pos.direction = "long"
IsShortCall(pos) == pos.optionType = "call" /\ pos.direction = "short"
PremiumPaidBtc(pos) == FxMul(EnteredPremiumBtc(pos), pos.quantity)
CeilingLessPremiumBtc(pos) == FxMul(Scale - EnteredPremiumBtc(pos), pos.quantity)

\* sum over the put legs of quantity * sign
NetPutExposure(positions) == SumLegs(positions, IsPut, SignedQuantity)

\* C11: in underlying-currency settlement profit is unbounded iff the net put
\* exposure is > 0 and loss is unbounded iff it is < 0, whatever the call legs
\* are; a finite side sums (1 - premiumInBtc) * quantity to max profit and
\* premiumInBtc * quantity to max loss for each long call, the mirror for each
\* short call, and only premiumInBtc * quantity for put legs (long put to max
\* loss, short put to max profit).
C11_UnboundedSidesBtc ==
    fn = "calculateTheoreticalMaxProfitLossBtc" =>
        LET positions == arg.positions
            net == NetPutExposure(positions)
        IN  /\ result.maxProfit = Unlimited <=> net > 0
            /\ result.maxLoss = Unlimited <=> net < 0
            /\ ~result.maxProfit.unlimited =>
                 result.maxProfit.value
                   = SumLegs(positions, IsLongCall, CeilingLessPremiumBtc)
                     + SumLegs(positions, IsShort, PremiumPaidBtc)
            /\ ~result.maxLoss.unlimited =>
                 result.maxLoss.value
                   = -(SumLegs(positions, IsShortCall, CeilingLessPremiumBtc)
                       + SumLegs(positions, IsLong, PremiumPaidBtc))

\* a long call beside a short put: the loss is unbounded whatever the call,
\* and the finite profit is the call's ceiling plus the put's premium
C11_Witness ==
    /\ fn = "calculateTheoreticalMaxProfitLossBtc"
    /\ Len(arg.positions) = 2
    /\ IsLongCall(arg.positions[1]) /\ IsShortPut(arg.positions[2])
    /\ arg.positions[1].quantity > arg.positions[2].quantity
    /\ result.maxLoss = Unlimited
    /\ result.maxProfit
         = Finite(CeilingLessPremiumBtc(arg.positions[1]) + PremiumPaidBtc(arg.positions[2]))
    /\ result.maxProfit.value > 0

\* C12: for every list of well-formed positions and in both denominations a
\* finite maxProfit is >= 0 and a finite maxLoss is <= 0, also when a put's
\* premium exceeds its strike.
C12_SideSigns ==
    fn \in {"calculateTheoreticalMaxProfitLoss", "calculateTheoreticalMaxProfitLossBtc"} =>
        /\ ~result.maxProfit.unlimited => result.maxProfit.value >= 0
        /\ ~result.maxLoss.unlimited => result.maxLoss.value <= 0

---------------------------------------------------------------------------
(* Properties of the range solver *)

\* the least and the greatest element of a nonempty set of numbers
Least(S) == CHOOSE x \in S : \A y \in S : x <= y
Greatest(S) == CHOOSE x \in S : \A y \in S : x >= y

\* C13: calculatePriceRange returns [0.7 * spot, 1.3 * spot] when there are no
\* positions (spot = 100 gives [70, 130]); otherwise, with min and max taken
\* over all strikes and the spot, span = max - min (or 0.3 * spot when
\* max = min) and padding = max(0.3 * span, 0.1 * spot), it returns
\* [max(0, min - padding), max + padding].
C13_PriceRange ==
    fn = "calculatePriceRange" =>
        LET spot == arg.currentPrice
            all  == {arg.positions[i].strike : i \in 1 .. Len(arg.positions)} \cup {spot}
            min  == Least(all)
            max  == Greatest(all)
            span == IF max = min THEN FxTimes(spot, 3, 10) ELSE max - min
            spanPad == FxTimes(span, 3, 10)
            spotPad == FxTimes(spot, 1, 10)
            padding == IF spanPad >= spotPad THEN spanPad ELSE spotPad
        IN  /\ Len(arg.positions) = 0 =>
                 /\ result = <<FxTimes(spot, 7, 10), FxTimes(spot, 13, 10)>>
                 /\ spot = 100 * Scale => result = <<70 * Scale, 130 * Scale>>
            /\ Len(arg.positions) > 0 =>
                 result = <<IF min - padding > 0 THEN min - padding ELSE 0, max + padding>>

\* a strike far below the spot: the padded lower bound is negative and the
\* range starts at 0
C13_Witness ==
    /\ fn = "calculatePriceRange"
    /\ Len(arg.positions) = 2
    /\ arg.positions[1].strike = 10 * Scale /\ arg.positions[2].strike = 150 * Scale
    /\ arg.currentPrice = 100 * Scale
    /\ result = <<0, 192 * Scale>>

\* pnl_i <= 0 <= pnl_{i+1} or pnl_i >= 0 >= pnl_{i+1}
NonStrictlyOpposite(points, i) ==
    \/ points[i].pnl <= 0 /\ points[i + 1].pnl >= 0
    \/ points[i].pnl >= 0 /\ points[i + 1].pnl <= 0

BothZero(points, i) == points[i].pnl = 0 /\ points[i + 1].pnl = 0

\* the indices i of the pairs (i, i+1) that satisfy keep, in scan order
PairsWhere(points, keep(_, _)) ==
    LET sel[i \in 0 .. MathMax(Len(points) - 1, 0)] ==
            IF i = 0 THEN <<>>
            ELSE IF keep(points, i) THEN Append(sel[i - 1], i) ELSE sel[i - 1]
    IN  sel[MathMax(Len(points) - 1, 0)]

\* price_i + (price_{i+1} - price_i) * |pnl_i| / (|pnl_i| + |pnl_{i+1}|)
Crossing(points, i) ==
    points[i].price
    + FxMul(points[i + 1].price - points[i].price,
            FxDiv(MathAbs(points[i].pnl),
                  MathAbs(points[i].pnl) + MathAbs(points[i + 1].pnl)))

\* the breakevens are the crossings of the given pairs, one each, in order,
\* each inside its pair's price interval
EmitsExactly(breakevens, points, pairs) ==
    /\ Len(breakevens) = Len(pairs)
    /\ \A k \in 1 .. Len(pairs) :
         /\ breakevens[k] = Crossing(points, pairs[k])
         /\ breakevens[k] >= points[pairs[k]].price
         /\ breakevens[k] <= points[pairs[k] + 1].price

CrossingPair(points, i) == NonStrictlyOpposite(points, i) /\ ~BothZero(points, i)

\* C14 (as the code behaves): findBreakevens emits, in scan order, one crossing
\* for every consecutive pair whose PnL signs are non-strictly opposite and not
\* both zero, equal to the interpolation formula and inside
\* [price_i, price_{i+1}], and nothing for any other pair (a pair of two zero
\* samples included); (100, -2), (101, +3) give 100.4; crossings are not
\* deduplicated.
C14_BreakevensSkipFlat ==
    fn = "findBreakevens" =>
        /\ EmitsExactly(result, arg.points, PairsWhere(arg.points, CrossingPair))
        /\ ( /\ Len(arg.points) = 2
             /\ arg.points[1].pnl = -2 * Scale /\ arg.points[2].pnl = 3 * Scale )
           => result = <<100 * Scale + FxOf(4, 10)>>

\* C14: findBreakevens emits, in scan order, one crossing for every
\* consecutive pair whose PnL signs are non-strictly opposite (pairs that only
\* touch zero included), equal to the interpolation formula and inside
\* [price_i, price_{i+1}], and nothing for any other pair.
C14_Breakevens ==
    fn = "findBreakevens" =>
        EmitsExactly(result, arg.points, PairsWhere(arg.points, NonStrictlyOpposite))

\* a curve that falls to zero and stays there: the pair that touches zero
\* emits its crossing, the pair of two zero samples emits nothing
C14_Witness ==
    /\ fn = "findBreakevens"
    /\ Len(arg.points) = 3
    /\ arg.points[1].pnl > 0 /\ arg.points[2].pnl = 0 /\ arg.points[3].pnl = 0
    /\ result = <<101 * Scale>>

---------------------------------------------------------------------------
(* Properties of the chart viewport *)

\* C15: after any sequence of gesture start/move/end events a pinned view
\* domain [min, max] has min >= 0: a gesture-move whose transformed domain has
\* a negative lower bound pins [0, max + (-min)], the window shifted right with
\* its width unchanged.
C15_PinnedNonNegative ==
    /\ viewDomain # Null => viewDomain[1] >= 0
    /\ (fn = "zoom" /\ referenceScale # Null) =>
         LET transformed == rescaleX(zoomTransform, referenceScale)
         IN  /\ viewDomain[2] - viewDomain[1] = transformed[2] - transformed[1]
             /\ transformed[1] < 0 =>
                  viewDomain = <<0, transformed[2] + (-transformed[1])>>
             /\ transformed[1] >= 0 => viewDomain = transformed

\* a drag towards lower prices from a domain that starts at 0: the window is
\* shifted back to start at 0
C15_Witness ==
    /\ fn = "zoom" /\ arg.type = "pan" /\ arg.dx > 0
    /\ referenceScale # Null
    /\ rescaleX(zoomTransform, referenceScale)[1] < 0
    /\ viewDomain[1] = 0
    /\ viewDomain[2] > rescaleX(zoomTransform, referenceScale)[2]

\* C16: customPriceRange is never changed by a gesture start or a gesture
\* move, nor by the end of a gesture that had no move: the extension policy
\* runs only at gesture end, so one gesture regenerates the dataset over a new
\* domain at most once, however many moves it contains.
C16_ExtensionOnlyAtEnd ==
    [][ /\ fn' \in {"zoomStart", "zoom"} => customPriceRange' = customPriceRange
        /\ (fn' = "zoomEnd" /\ ~hasActualMovement) => customPriceRange' = customPriceRange
      ]_vars

\* the second move of the first gesture, two chart widths to the right: the
\* view is outside the dataset and the generation domain is still the default
C16_Witness ==
    /\ fn = "zoom" /\ isDragging /\ moves = 2
    /\ zoomTransform = [k |-> Scale, x |-> -1600 * Scale]
    /\ customPriceRange = Null
    /\ RangeIsExtended(viewDomain, customPriceRange, positionStore.positions,
                       positionStore.underlyingPrice)

\* max(0, min(5 * spot, x))
ClampToReasonable(x, spot) ==
    LET ceiling == FxMul(spot, 5 * Scale)
    IN  IF x < 0 THEN 0 ELSE IF x > ceiling THEN ceiling ELSE x

\* C17: at gesture end with view [vMin, vMax] and dataset [dMin, dMax], a
\* wider dataset is requested iff vMin < dMin + 0.25 * (dMax - dMin) or
\* vMax > dMax - 0.25 * (dMax - dMin); the requested generation domain is
\* [vMin - 0.15 * (vMax - vMin), vMax + 0.15 * (vMax - vMin)] clamped to
\* [0, 5 * spot], both bounds within [0, 5 * spot]; with a margin of at least
\* 25% of the dataset span on both sides the generation domain is unchanged.
C17_ExtensionPolicy ==
    [][ (fn' = "zoomEnd" /\ hasActualMovement) =>
          LET spot == positionStore.underlyingPrice
              v == currentXDomain(viewDomain, customPriceRange,
                                  positionStore.positions, spot)
              d == DataRange(customPriceRange, positionStore.positions, spot)
              quarter == FxMul(d[2] - d[1], FxOf(25, 100))
              pad == FxMul(v[2] - v[1], FxOf(15, 100))
              wanted == v[1] < d[1] + quarter \/ v[2] > d[2] - quarter
              requested == <<ClampToReasonable(v[1] - pad, spot),
                             ClampToReasonable(v[2] + pad, spot)>>
          IN  /\ wanted =>
                   \/ customPriceRange' = requested
                   \/ requested = d /\ customPriceRange' = customPriceRange
              /\ ~wanted => customPriceRange' = customPriceRange
              /\ customPriceRange' # customPriceRange =>
                   /\ customPriceRange'[1] >= 0
                   /\ customPriceRange'[1] <= FxMul(spot, 5 * Scale)
                   /\ customPriceRange'[2] >= 0
                   /\ customPriceRange'[2] <= FxMul(spot, 5 * Scale)
      ]_vars

\* the number of units of resolution by which the last sample's price,
\* minPrice + step * (numPoints - 1), can differ from maxPrice
SampleTolerance == numPoints \div 2

\* C18: after any sequence of gestures a reset leaves viewDomain = null and
\* customPriceRange = null, and the displayed domain is the domain of the
\* regenerated dataset, the default calculatePriceRange domain.
C18_ResetRestoresDefault ==
    fn = "resetZoom" =>
        LET spot == positionStore.underlyingPrice
            displayed == currentXDomain(viewDomain, customPriceRange,
                                        positionStore.positions, spot)
            default == calculatePriceRange(enabledPositions(positionStore.positions), spot)
        IN  /\ viewDomain = Null
            /\ customPriceRange = Null
            /\ displayed = BaseXDomain(Null, positionStore.positions, spot)
            /\ displayed[1] = default[1]
            /\ MathAbs(displayed[2] - default[2]) <= SampleTolerance

\* a reset after gestures that moved the view
C18_Witness ==
    /\ fn = "resetZoom"
    /\ moves >= 2
    /\ viewDomain = Null /\ customPriceRange = Null
    /\ zoomTransform = zoomIdentity

\* C19: whenever the position list goes from non-empty to empty, viewDomain
\* and customPriceRange are both null afterwards, and they stay null while
\* the list is empty, so positions added later are shown on the default
\* domain.
C19_EmptyResetsViewport ==
    /\ [][ ( /\ Len(positionStore.positions) > 0
             /\ Len(positionStore'.positions) = 0 )
           => (viewDomain' = Null /\ customPriceRange' = Null) ]_vars
    /\ [](Len(positionStore.positions) = 0 =>
             (viewDomain = Null /\ customPriceRange = Null))

\* the last position was removed after gestures that moved the view
C19_Witness ==
    /\ fn = "removePosition"
    /\ Len(positionStore.positions) = 0
    /\ moves >= 1
    /\ viewDomain = Null /\ customPriceRange = Null
    /\ previousPositionCount = 0

---------------------------------------------------------------------------
(* Properties of the store *)

IsNumberAbove(x, low) == x # NaN /\ x > low

\* C20: after any sequence of store operations underlyingPrice > 0,
\* 0 < volatility <= 5 and daysToExpiry >= 0; a setUnderlyingPrice,
\* setVolatility or setDaysToExpiry call with an out-of-range argument leaves
\* the whole store state unchanged.
C20_MarketParameterRanges ==
    /\ [] /\ IsNumberAbove(positionStore.underlyingPrice, 0)
          /\ IsNumberAbove(positionStore.volatility, 0)
          /\ positionStore.volatility <= 5 * Scale
          /\ IsNumberAbove(positionStore.daysToExpiry, -1)
    /\ [][ /\ (fn' = "setUnderlyingPrice" /\ ~IsNumberAbove(arg'.price, 0))
               => positionStore' = positionStore
           /\ ( /\ fn' = "setVolatility"
                /\ ~(IsNumberAbove(arg'.iv, 0) /\ arg'.iv <= 5 * Scale) )
               => positionStore' = positionStore
           /\ (fn' = "setDaysToExpiry" /\ ~IsNumberAbove(arg'.days, -1))
               => positionStore' = positionStore
         ]_vars

\* a volatility just above 5 was refused after 5 itself was accepted
C20_Witness ==
    /\ fn = "setVolatility"
    /\ arg.iv = 5 * Scale + 1
    /\ positionStore.volatility = 5 * Scale

---------------------------------------------------------------------------
(* Properties of the import *)

\* the version of the document is a number not exceeding EXPORT_VERSION
VersionUnderstood(data) ==
    LET version == PropertyOf(data, "version")
    IN  version.type = "number" /\ version.value <= EXPORT_VERSION * Scale

IsPositiveNumber(v) == v.type = "number" /\ v.value > 0
IsNonNegativeNumber(v) == v.type = "number" /\ v.value >= 0

\* every field of the position passes validation
PassesValidation(pos) ==
    /\ pos.type = "object"
    /\ LET p == FieldsOf(pos)
       IN  /\ p.id.type = "string" /\ p.id.value # ""
           /\ p.optionType.type = "string" /\ p.optionType.value \in {"call", "put"}
           /\ p.direction.type = "string" /\ p.direction.value \in {"long", "short"}
           /\ IsPositiveNumber(p.strike)
           /\ IsNonNegativeNumber(p.premium)
           /\ IsPositiveNumber(p.quantity)
           /\ p.expiryDate.type = "string" /\ DateParse(p.expiryDate.value) # NaN
           /\ IsPositiveNumber(p.btcPriceAtEntry)
           /\ p.denominationAtEntry.type = "string"
           /\ p.denominationAtEntry.value \in {"usd", "btc"}

\* the document is one whose positions may be handed to the store
Importable(data) ==
    /\ data.type = "object"
    /\ VersionUnderstood(data)
    /\ LET items == PropertyOf(data, "positions")
       IN  /\ items.type = "array"
           /\ \A i \in 1 .. Len(items.value) : PassesValidation(items.value[i])

\* C21: an import hands positions to the store (at once, or as the positions
\* pending confirmation) only if the document's version is a number not above
\* EXPORT_VERSION and every position passes the validation of every field; a
\* document that fails yields an error result and leaves the position list
\* unchanged, with no partial import: what is handed over has as many
\* positions as the document, and a confirmed import stores the pending list.
C21_ImportValidated ==
    [][/\ fn' = "reader.onload" =>
            LET data == fileReader[1]
                handed == positionStore'.positions # positionStore.positions
                              \/ pendingPositions' # pendingPositions
            IN  /\ handed => Importable(data)
                /\ ~Importable(data) =>
                       /\ ~result'.success
                       /\ errorMessage' = <<result'.error>>
                       /\ positionStore'.positions = positionStore.positions
                       /\ pendingPositions' = pendingPositions
                       /\ showConfirmDialog' = showConfirmDialog
                /\ Importable(data) =>
                       LET count == Len(PropertyOf(data, "positions").value)
                       IN  /\ result'.success /\ Len(result'.positions) = count
                           /\ errorMessage' = errorMessage
                           /\ IF hasPositions(positionStore.positions)
                              THEN /\ pendingPositions' = <<result'.positions>>
                                   /\ positionStore'.positions = positionStore.positions
                              ELSE positionStore'.positions = result'.positions
       /\ fn' = "confirmImport" /\ pendingPositions # Null =>
            positionStore'.positions = pendingPositions[1]
       /\ fn' \in {"handleFileSelect", "errorTimeout", "cancelImport"} =>
            positionStore'.positions = positionStore.positions
      ]_vars

\* a document of two positions, the first valid and the second not, was read:
\* an error is shown and the store is as it was
C21_Witness ==
    /\ fn = "reader.onload"
    /\ arg.other = 0
    /\ VersionUnderstood(ContentOf(arg))
    /\ Len(arg.items) = 2
    /\ PassesValidation(JsonPositions[arg.items[1]])
    /\ ~PassesValidation(JsonPositions[arg.items[2]])
    /\ ~result.success
    /\ errorMessage = <<result.error>>
    /\ positionStore.positions = <<>>
    /\ pendingPositions = Null

---------------------------------------------------------------------------
(* Properties of the chart data *)

\* the samples examined: MaxSampleStep + 1 of them, spread from the first to
\* the last
MaxSampleStep == 2
CheckedSamples == {(i * (numPoints - 1)) \div MaxSampleStep : i \in 0 .. MaxSampleStep}

NotFalse(pos) == pos.enabled # "false"
Always(pos) == TRUE

\* the PnL of one position at a price as the two curves take it
PnlAtExpiry(store, pos, price) ==
    IF store.denomination = "btc" THEN calculatePositionPnlBtc(pos, price)
    ELSE calculatePositionPnl(pos, price)
PnlWithTimeValue(store, pos, price) ==
    IF store.daysToExpiry <= 0 THEN PnlAtExpiry(store, pos, price)
    ELSE IF store.denomination = "btc"
    THEN calculatePositionPnlWithTimeValueBtc(pos, price, store.daysToExpiry,
                                              store.volatility, store.riskFreeRate)
    ELSE calculatePositionPnlWithTimeValue(pos, price, store.daysToExpiry,
                                           store.volatility, store.riskFreeRate)

\* the position with the id, toggled
ToggledIn(stored, id) ==
    [i \in 1 .. Len(stored) |-> IF stored[i].id = id THEN Toggled(stored[i]) ELSE stored[i]]

\* the curves and the summary the chart displays are those of the positions
\* whose flag is not false
DisplaysEnabled(store, priceRange) ==
    LET args     == ChartDataArgs(store, priceRange)
        included == SelectSeq(store.positions, NotFalse)
        atExpiry(pos, price) == PnlAtExpiry(store, pos, price)
        range    == IF priceRange # Null THEN priceRange
                    ELSE calculatePriceRange(included, store.underlyingPrice)
        expected(i) ==
            LET price == SamplePrice(range, i)
                timeValued(pos) == PnlWithTimeValue(store, pos, price)
            IN  [price |-> price, pnl |-> SumLegs(store.positions, NotFalse, timeValued)]
    IN  /\ \A i \in CheckedSamples :
              LET price == SamplePrice(range, i)
                  expiry(pos) == PnlAtExpiry(store, pos, price)
              IN  /\ AtExpiryPoint(args, i) =
                         [price |-> price, pnl |-> SumLegs(store.positions, NotFalse, expiry)]
                  /\ WithTimeValuePoint(args, i) = expected(i)
        /\ ChartMaxProfitLoss(args) =
               (IF store.denomination = "btc"
                THEN calculateTheoreticalMaxProfitLossBtc(included)
                ELSE calculateTheoreticalMaxProfitLoss(included))
        /\ store.daysToExpiry = 0 =>
               ChartBreakevens(args) =
                   BreakevensByStretch(SubSeq([i \in 1 .. numPoints |-> expected(i - 1)],
                                              1, numPoints))

\* the combined-PnL functions sum over every position they are given
EngineSumsAll(store, price) ==
    LET expiryUsd(pos) == calculatePositionPnl(pos, price)
        expiryBtc(pos) == calculatePositionPnlBtc(pos, price)
        timeUsd(pos) == calculatePositionPnlWithTimeValue(pos, price, store.daysToExpiry,
                                                          store.volatility, store.riskFreeRate)
        timeBtc(pos) == calculatePositionPnlWithTimeValueBtc(pos, price, store.daysToExpiry,
                                                             store.volatility, store.riskFreeRate)
    IN  /\ calculateCombinedPnl(store.positions, price)
               = SumLegs(store.positions, Always, expiryUsd)
        /\ calculateCombinedPnlBtc(store.positions, price)
               = SumLegs(store.positions, Always, expiryBtc)
        /\ calculateCombinedPnlWithTimeValue(store.positions, price, store.daysToExpiry,
                                             store.volatility, store.riskFreeRate)
               = SumLegs(store.positions, Always, timeUsd)
        /\ calculateCombinedPnlWithTimeValueBtc(store.positions, price, store.daysToExpiry,
                                                store.volatility, store.riskFreeRate)
               = SumLegs(store.positions, Always, timeBtc)

\* toggling the position id off removes its contribution at the price (and
\* toggling it on adds it), and toggling it once more restores the curves
ToggleContribution(id, price) ==
    LET before == ChartDataArgs(positionStore, customPriceRange)
        after  == ChartDataArgs(positionStore', customPriceRange')
        again  == ChartDataArgs([positionStore' EXCEPT !.positions = ToggledIn(@, id)],
                                customPriceRange')
        pos    == CHOOSE p \in {positionStore.positions[i] :
                                    i \in 1 .. Len(positionStore.positions)} : p.id = id
        sign   == IF NotFalse(pos) THEN -1 ELSE 1
    IN  /\ AtExpiryPnl(after, price)
               = AtExpiryPnl(before, price) + sign * PnlAtExpiry(positionStore, pos, price)
        /\ WithTimeValuePnl(after, price)
               = WithTimeValuePnl(before, price)
                     + sign * PnlWithTimeValue(positionStore, pos, price)
        /\ AtExpiryPnl(again, price) = AtExpiryPnl(before, price)
        /\ WithTimeValuePnl(again, price) = WithTimeValuePnl(before, price)

\* C22: at every sample price both curves of the chart, and the breakevens and
\* the exposure summary derived with them, are those of exactly the positions
\* whose enabled flag is not false; toggling a position off removes exactly
\* its contribution and toggling it twice restores the curve; the combined-PnL
\* functions sum over every position they are given, whatever the flag.
C22_CurvesOfEnabled ==
    /\ [](/\ DisplaysEnabled(positionStore, customPriceRange)
          /\ EngineSumsAll(positionStore, 120 * Scale))
    /\ [][fn' = "togglePosition" =>
              \A price \in {80 * Scale, 120 * Scale} : ToggleContribution(arg'.id, price)]_vars

\* a position of two was toggled off: the chart shows the curve of the other
C22_Witness ==
    /\ fn = "togglePosition"
    /\ Len(positionStore.positions) = 2
    /\ positionStore.positions[1].enabled = "false"
    /\ positionStore.positions[2].enabled = "undefined"
    /\ positionStore.daysToExpiry > 0
    /\ LET args == ChartDataArgs(positionStore, customPriceRange)
       IN  /\ args.positions = <<positionStore.positions[2]>>
           /\ WithTimeValuePnl(args, 100 * Scale)
                  # calculateCombinedPnlWithTimeValue(positionStore.positions, 100 * Scale,
                        positionStore.daysToExpiry, positionStore.volatility,
                        positionStore.riskFreeRate)

---------------------------------------------------------------------------
(* Properties of the add form *)

\* the fields of a position that record how its premium was entered
EntryFields(pos) ==
    <<pos.premium, pos.premiumBtc, pos.btcPriceAtEntry, pos.denominationAtEntry>>

\* premiumBtc is set exactly for the positions entered in btc
EnteredOncePositions(stored) ==
    \A i \in 1 .. Len(stored) :
        (stored[i].premiumBtc # <<>>) <=> (stored[i].denominationAtEntry = "btc")

\* C23: a position created through the add form has premiumBtc set iff it was
\* entered in the btc denomination (then premium = entered * spot at entry
\* and btcPriceAtEntry = that spot); afterwards togglePosition,
\* updatePositionQuantity and the setters of the market parameters and of
\* the denomination leave the premium, premiumBtc, btcPriceAtEntry and
\* denominationAtEntry of every existing position as they are.
C23_EnteredPremiumKept ==
    /\ [] EnteredOncePositions(positionStore.positions)
    /\ [][/\ (fn' = "handleSubmit"
                 /\ Len(positionStore'.positions) > Len(positionStore.positions)) =>
               LET created == positionStore'.positions[Len(positionStore'.positions)]
                   entered == arg'.formState.premium
                   spot    == positionStore.underlyingPrice
               IN  /\ created.btcPriceAtEntry = spot
                   /\ created.denominationAtEntry = positionStore.denomination
                   /\ IF positionStore.denomination = "btc"
                      THEN /\ created.premiumBtc = <<entered>>
                           /\ created.premium = FxMul(entered, spot)
                      ELSE /\ created.premiumBtc = <<>>
                           /\ created.premium = entered
                   /\ \A i \in 1 .. Len(positionStore.positions) :
                          positionStore'.positions[i] = positionStore.positions[i]
          /\ fn' \in {"togglePosition", "updatePositionQuantity", "setUnderlyingPrice",
                      "setDenomination", "setVolatility", "setRiskFreeRate",
                      "setDaysToExpiry"} =>
               /\ Len(positionStore'.positions) = Len(positionStore.positions)
               /\ \A i \in 1 .. Len(positionStore.positions) :
                      /\ positionStore'.positions[i].id = positionStore.positions[i].id
                      /\ EntryFields(positionStore'.positions[i])
                             = EntryFields(positionStore.positions[i])
         ]_vars

\* a position entered in btc as 0.05 at the spot 100000 (premium 5000), after
\* the denomination was switched to usd, the spot set to 120 and the quantity
\* changed, keeps what was entered
C23_Witness ==
    /\ fn = "updatePositionQuantity"
    /\ Len(positionStore.positions) = 1
    /\ positionStore.denomination = "usd"
    /\ positionStore.underlyingPrice = 120 * Scale
    /\ positionStore.positions[1].quantity = FxOf(3, 10)
    /\ EntryFields(positionStore.positions[1])
           = <<5000 * Scale, <<FxOf(5, 100)>>, 100000 * Scale, "btc">>

---------------------------------------------------------------------------
(* Properties of the d1/d2 sentinels *)

\* C24: the +/-Infinity that d1 and d2 return when T <= 0 or sigma <= 0 is
\* never used by a price or Greek formula: for every input with T <= 0 or
\* sigma <= 0, callPrice, putPrice, delta, gamma, theta, vega and rho return
\* on a special-case branch without evaluating d1 or d2.
C24_SentinelsNeverUsed ==
    (/\ fn \in {"callPrice", "putPrice", "delta", "gamma", "theta", "vega", "rho"}
     /\ (arg.T <= 0 \/ arg.sigma <= 0))
        => dValuesUsed(fn, arg.isCall, arg.S, arg.K, arg.T, arg.r, arg.sigma) = {}

---------------------------------------------------------------------------
(* Properties of the exposure summary against the curve *)

\* prices S > 0 at which the at-expiry curve is compared with the summary
CurvePrices == {1 * Scale, 50 * Scale, 95 * Scale, 150 * Scale, 1000 * Scale}

\* the combined at-expiry PnL of the summarised positions at price S, in the
\* denomination of the classifier that ran
CombinedPnlOfSummary(S) ==
    IF fn = "calculateTheoreticalMaxProfitLoss"
    THEN calculateCombinedPnl(arg.positions, S)
    ELSE calculateCombinedPnlBtc(arg.positions, S)

\* C25: the exposure summary bounds the at-expiry curve: for every list of
\* well-formed positions, in each denomination and at every price S > 0, the
\* combined at-expiry PnL is <= a finite maxProfit and >= a finite maxLoss.
C25_SummaryBoundsCurve ==
    fn \in {"calculateTheoreticalMaxProfitLoss", "calculateTheoreticalMaxProfitLossBtc"} =>
        \A S \in CurvePrices :
            /\ ~result.maxProfit.unlimited =>
                   CombinedPnlOfSummary(S) <= result.maxProfit.value
            /\ ~result.maxLoss.unlimited =>
                   CombinedPnlOfSummary(S) >= result.maxLoss.value

---------------------------------------------------------------------------
(* Properties of the generation domain *)

\* C26: whenever checkAndExtendRange sets a custom generation domain
\* [min, max], after any sequence of pans and zooms, that domain is
\* well-formed: 0 <= min < max <= 5 * spot.
C26_GenerationDomainWellFormed ==
    [][ (fn' = "zoomEnd" /\ customPriceRange' # customPriceRange) =>
          LET min == customPriceRange'[1]
              max == customPriceRange'[2]
          IN  /\ 0 <= min
              /\ min < max
              /\ max <= 5 * positionStore.underlyingPrice ]_vars

---------------------------------------------------------------------------
(* Properties of the reference captured at gesture start *)

\* C27: for every gesture, also one that follows a gesture ended without a
\* range extension (the element's transform not reset to identity), a
\* gesture-move with no net pan or zoom relative to the gesture's start pins
\* the domain displayed at gesture start: only the displacement made during
\* the current gesture is applied to the captured reference scale.
C27_NoDisplacementPinsStartDomain ==
    [][ (/\ fn' = "zoom"
         /\ ~hasActualMovement
         /\ referenceScale # Null
         /\ arg' = [type |-> "pan", dx |-> 0])
            => viewDomain' = referenceScale ]_vars

---------------------------------------------------------------------------
(* Properties of the slider of an empty store *)

\* C28: after every store operation that leaves the position list empty
\* (removePosition of the last position, clearAllPositions, setPositions with
\* an empty list), daysToExpiry is 0.
C28_EmptyStoreAtExpiry ==
    [][ (/\ fn' \in {"removePosition", "clearAllPositions", "setPositions"}
         /\ positionStore'.positions = <<>>)
            => positionStore'.daysToExpiry = 0 ]_vars

---------------------------------------------------------------------------
(* Properties of the time-valued PnL at expiry *)

\* C29: in underlying-currency settlement, for every position and every
\* price S >= 0, S = 0 included, the time-valued PnL with daysToExpiry = 0
\* equals the at-expiry PnL at the same price.
C29_TimeValueAtExpiryBtc ==
    (fn = "calculatePositionPnlWithTimeValueBtc" /\ arg.daysToExpiry = 0) =>
        result = calculatePositionPnlBtc(arg.position, arg.underlyingPrice)

---------------------------------------------------------------------------
(* Properties of the expiry slider *)

\* C30: after any sequence of store operations (adding positions, moving the
\* expiry slider, removing or replacing positions), daysToExpiry <=
\* maxDaysToExpiry, so the slider position maxDays - daysToExpiry is within
\* [0, maxDays].
C30_SliderWithinRange ==
    LET maxDays == getMaxDaysToExpiry(positionStore.positions)
    IN  /\ positionStore.daysToExpiry <= maxDays
        /\ maxDays - positionStore.daysToExpiry \in 0 .. maxDays

====
